---- MODULE Spec2Model ----
(***************************************************************************)
(* A model of the rbd object class (src/src/cls_rbd.cc): the methods that  *)
(* keep an image's metadata in the omap of its header object.              *)
(*                                                                         *)
(* The header object is the record obj = [exists, omap].  Every method is  *)
(* an operator from the object and the decoded input to a result           *)
(* [ret, out, omap]: the status, the output and the omap as the method's   *)
(* writes leave it.  An action runs one method as one OSD operation and    *)
(* records the call, its result and the object as it was before the call.  *)
(*                                                                         *)
(* The old-format header object is the variable old (the bytes of          *)
(* rbd_obj_header_ondisk, the snapshot descriptors and the name table) and *)
(* the rbd_info object of rbd_assign_bid is the variable info; old_pre and *)
(* info_pre are these objects as they were before the last call.  taken    *)
(* and bids are history: what a client read from the image at the moment   *)
(* it added each snapshot, and the ids rbd_assign_bid has handed out; high  *)
(* is the highest id a snapshot_add has succeeded with (0 if none did) and *)
(* adds holds the ids of the last two snapshot_add calls that succeeded.   *)
(***************************************************************************)
EXTENDS Integers, Sequences, FiniteSets, TLC

VARIABLES obj, pre, call, res, taken, high, adds,
          old, old_pre, info, info_pre, bids

vars == <<obj, pre, call, res, taken, high, adds,
          old, old_pre, info, info_pre, bids>>

(***************************************************************************)
(* Bounds of the model.                                                    *)
(***************************************************************************)
\* Ids are 64-bit in the source and keys hold 16 hex digits (setw(16)).  The
\* model keeps the relation word = 4 * width bits and scales the width down.
HexWidth == 2
\* Image sizes and parent sizes are drawn from 0..MaxSize.
MaxSize == 2
\* Snapshot ids are drawn from 0..MaxSnapId, 16 and the two sentinels.
MaxSnapId == 2
\* rbd_assign_bid is called until it has handed out the id MaxBids.
MaxBids == 3

(***************************************************************************)
(* Program constants.                                                      *)
(***************************************************************************)
RBD_MAX_KEYS_READ == 64
RBD_SNAP_KEY_PREFIX == "snapshot_"
RBD_LOCK_TYPE_KEY == "lock_type"
RBD_LOCKS_KEY == "lock_lockers"
RBD_LOCK_EXCLUSIVE == "exclusive"
RBD_LOCK_SHARED == "shared"

\* The largest value of the (scaled) unsigned word.
U64Max == 16^HexWidth - 1
CEPH_NOSNAP == U64Max - 1
CEPH_MAXSNAP == U64Max - 2

RBD_FEATURE_LAYERING == 1
RBD_FEATURES_ALL == RBD_FEATURE_LAYERING
RBD_FEATURES_INCOMPATIBLE == RBD_FEATURE_LAYERING

OK == "OK"

(***************************************************************************)
(* Integer helpers.                                                        *)
(***************************************************************************)
RECURSIVE BitAnd(_, _)
BitAnd(a, b) ==
  IF a = 0 \/ b = 0 THEN 0
  ELSE (a % 2) * (b % 2) + 2 * BitAnd(a \div 2, b \div 2)

\* ~x on the unsigned word
BitNot(x) == U64Max - x

MIN(a, b) == IF a < b THEN a ELSE b

(***************************************************************************)
(* Keys.  A key is [name, hex]: a literal key name, followed for a         *)
(* snapshot key by the hex digits of the id.  Keys order as std::string    *)
(* does: bytewise.                                                         *)
(***************************************************************************)
\* The literal key names of the class, in bytewise order.
KeyNames ==
  << "features", RBD_LOCKS_KEY, RBD_LOCK_TYPE_KEY, "object_prefix", "order",
     "parent", "size", "snap_seq", RBD_SNAP_KEY_PREFIX >>

NameRank(n) == CHOOSE i \in 1..Len(KeyNames) : KeyNames[i] = n

K(n) == [name |-> n, hex |-> <<>>]

RECURSIVE SeqLess(_, _)
SeqLess(a, b) ==
  IF b = <<>> THEN FALSE
  ELSE IF a = <<>> THEN TRUE
  ELSE IF a[1] # b[1] THEN a[1] < b[1]
  ELSE SeqLess(Tail(a), Tail(b))

KeyLess(a, b) ==
  IF a.name # b.name THEN NameRank(a.name) < NameRank(b.name)
  ELSE SeqLess(a.hex, b.hex)

\* std::hex << n
RECURSIVE ToHex(_)
ToHex(n) == IF n < 16 THEN <<n>> ELSE ToHex(n \div 16) \o <<n % 16>>

\* std::setw(w) << std::setfill('0')
RECURSIVE PadLeft(_, _)
PadLeft(s, w) == IF Len(s) >= w THEN s ELSE PadLeft(<<0>> \o s, w)

\* key_from_snap_id as it would be without setw and setfill
key_from_snap_id_NoPad(snap_id) ==
  [name |-> RBD_SNAP_KEY_PREFIX, hex |-> ToHex(snap_id)]

key_from_snap_id(snap_id) ==
  [name |-> RBD_SNAP_KEY_PREFIX, hex |-> PadLeft(ToHex(snap_id), HexWidth)]

RECURSIVE HexValue(_)
HexValue(s) ==
  IF s = <<>> THEN 0 ELSE 16 * HexValue(SubSeq(s, 1, Len(s) - 1)) + s[Len(s)]

snap_id_from_key(key) == HexValue(key.hex)

(***************************************************************************)
(* The omap of the object: a function from the keys present to values.     *)
(***************************************************************************)
EmptyMap == [k \in {} |-> 0]

HasKey(m, k) == k \in DOMAIN m

cls_cxx_map_set_val(m, k, v) ==
  [j \in DOMAIN m \cup {k} |-> IF j = k THEN v ELSE m[j]]

cls_cxx_map_remove_key(m, k) == [j \in DOMAIN m \ {k} |-> m[j]]

\* read_key: 0 and the decoded value, or -ENOENT
read_key(m, k) ==
  IF HasKey(m, k) THEN [r |-> OK, v |-> m[k]] ELSE [r |-> "ENOENT", v |-> <<>>]

\* the keys of S in order: those before a key of the middle, the key, those
\* after it
RECURSIVE SortKeys(_)
SortKeys(S) ==
  IF S = {} THEN <<>>
  ELSE LET mid == CHOOSE k \in S :
                    Cardinality({j \in S : KeyLess(j, k)}) =
                      Cardinality(S) \div 2
       IN  SortKeys({j \in S : KeyLess(j, mid)}) \o <<mid>> \o
           SortKeys({j \in S : KeyLess(mid, j)})

Take(s, n) == SubSeq(s, 1, MIN(n, Len(s)))

\* the keys after start_after, in order, at most max_to_get of them
cls_cxx_map_get_keys(m, start_after, max_to_get) ==
  Take(SortKeys({k \in DOMAIN m : KeyLess(start_after, k)}), max_to_get)

\* the same for the keys that begin with filter_prefix
cls_cxx_map_get_vals(m, start_after, filter_prefix, max_to_get) ==
  Take(SortKeys({k \in DOMAIN m :
                   KeyLess(start_after, k) /\ k.name = filter_prefix}),
       max_to_get)

(***************************************************************************)
(* Records of the class.                                                   *)
(***************************************************************************)
\* cls_rbd_parent()
NoParent == [pool |-> -1, id |-> "", snapid |-> CEPH_NOSNAP, overlap |-> 0]

\* cls_rbd_parent::exists
ParentExists(p) == p.pool >= 0 /\ p.id # ""

Result(ret, out, m) == [ret |-> ret, out |-> out, omap |-> m]

Fail(ret, o) == Result(ret, <<>>, o.omap)

(***************************************************************************)
(* Image attributes.                                                       *)
(***************************************************************************)
\* create as it would be without its last write, of snap_seq
create_NoSnapSeq(o, size, order, features, object_prefix) ==
  IF BitAnd(features, BitNot(RBD_FEATURES_ALL)) # 0 THEN Fail("ENOSYS", o)
  ELSE IF object_prefix = "" THEN Fail("EINVAL", o)
  ELSE IF HasKey(o.omap, K("object_prefix")) THEN Fail("EEXIST", o)
  ELSE
    LET m1 == cls_cxx_map_set_val(o.omap, K("size"), size)
        m2 == cls_cxx_map_set_val(m1, K("order"), order)
        m3 == cls_cxx_map_set_val(m2, K("features"), features)
        m4 == cls_cxx_map_set_val(m3, K("object_prefix"), object_prefix)
    IN  Result(OK, <<>>, m4)

\* create as it would be without the look for an object_prefix already set
create_Overwrite(o, size, order, features, object_prefix) ==
  IF BitAnd(features, BitNot(RBD_FEATURES_ALL)) # 0 THEN Fail("ENOSYS", o)
  ELSE IF object_prefix = "" THEN Fail("EINVAL", o)
  ELSE
    LET m1 == cls_cxx_map_set_val(o.omap, K("size"), size)
        m2 == cls_cxx_map_set_val(m1, K("order"), order)
        m3 == cls_cxx_map_set_val(m2, K("features"), features)
        m4 == cls_cxx_map_set_val(m3, K("object_prefix"), object_prefix)
        m5 == cls_cxx_map_set_val(m4, K("snap_seq"), 0)
    IN  Result(OK, <<>>, m5)

create(o, size, order, features, object_prefix) ==
  IF BitAnd(features, BitNot(RBD_FEATURES_ALL)) # 0 THEN Fail("ENOSYS", o)
  ELSE IF object_prefix = "" THEN Fail("EINVAL", o)
  ELSE IF HasKey(o.omap, K("object_prefix")) THEN Fail("EEXIST", o)
  ELSE
    LET m1 == cls_cxx_map_set_val(o.omap, K("size"), size)
        m2 == cls_cxx_map_set_val(m1, K("order"), order)
        m3 == cls_cxx_map_set_val(m2, K("features"), features)
        m4 == cls_cxx_map_set_val(m3, K("object_prefix"), object_prefix)
        m5 == cls_cxx_map_set_val(m4, K("snap_seq"), 0)
    IN  Result(OK, <<>>, m5)

get_features(o, snap_id) ==
  IF snap_id = CEPH_NOSNAP THEN
    LET f == read_key(o.omap, K("features"))
    IN  IF f.r # OK THEN Fail(f.r, o)
        ELSE Result(OK, <<f.v, BitAnd(f.v, RBD_FEATURES_INCOMPATIBLE)>>, o.omap)
  ELSE
    LET s == read_key(o.omap, key_from_snap_id(snap_id))
    IN  IF s.r # OK THEN Fail(s.r, o)
        ELSE Result(OK,
                    <<s.v.features,
                      BitAnd(s.v.features, RBD_FEATURES_INCOMPATIBLE)>>,
                    o.omap)

check_exists(o) == IF o.exists THEN OK ELSE "ENOENT"

\* require_feature as it would be if it did not ask whether the object
\* exists
require_feature_NoStat(o, need) ==
  LET f == read_key(o.omap, K("features"))
  IN  IF f.r = "ENOENT" THEN "ENOEXEC"
      ELSE IF BitAnd(f.v, need) # need THEN "ENOEXEC"
      ELSE OK

require_feature(o, need) ==
  LET f == read_key(o.omap, K("features"))
  IN  IF f.r = "ENOENT" THEN
        (IF check_exists(o) # OK THEN check_exists(o) ELSE "ENOEXEC")
      ELSE IF BitAnd(f.v, need) # need THEN "ENOEXEC"
      ELSE OK

\* get_size as it would be if it read the size of the live image for every
\* snap_id
get_size_Live(o, snap_id) ==
  IF require_feature(o, 0) # OK THEN Fail(require_feature(o, 0), o)
  ELSE
    LET ord == read_key(o.omap, K("order"))
        sz == read_key(o.omap, K("size"))
    IN  IF ord.r # OK THEN Fail(ord.r, o)
        ELSE IF sz.r # OK THEN Fail(sz.r, o)
        ELSE Result(OK, <<ord.v, sz.v>>, o.omap)

get_size(o, snap_id) ==
  IF require_feature(o, 0) # OK THEN Fail(require_feature(o, 0), o)
  ELSE
    LET ord == read_key(o.omap, K("order"))
    IN  IF ord.r # OK THEN Fail(ord.r, o)
        ELSE IF snap_id = CEPH_NOSNAP THEN
          LET sz == read_key(o.omap, K("size"))
          IN  IF sz.r # OK THEN Fail(sz.r, o)
              ELSE Result(OK, <<ord.v, sz.v>>, o.omap)
        ELSE
          LET s == read_key(o.omap, key_from_snap_id(snap_id))
          IN  IF s.r # OK THEN Fail(s.r, o)
              ELSE Result(OK, <<ord.v, s.v.image_size>>, o.omap)

\* set_size as it would be if it left the parent alone
set_size_NoClamp(o, size) ==
  IF require_feature(o, 0) # OK THEN Fail(require_feature(o, 0), o)
  ELSE
    LET orig == read_key(o.omap, K("size"))
    IN  IF orig.r # OK THEN Fail(orig.r, o)
        ELSE Result(OK, <<>>, cls_cxx_map_set_val(o.omap, K("size"), size))

set_size(o, size) ==
  IF require_feature(o, 0) # OK THEN Fail(require_feature(o, 0), o)
  ELSE
    LET orig == read_key(o.omap, K("size"))
    IN  IF orig.r # OK THEN Fail(orig.r, o)
        ELSE
          LET m1 == cls_cxx_map_set_val(o.omap, K("size"), size)
              p  == read_key(m1, K("parent"))
              parent == IF p.r = OK THEN p.v ELSE NoParent
          IN  IF size < orig.v
              THEN IF ParentExists(parent) /\ parent.overlap > size
                   THEN Result(OK, <<>>,
                               cls_cxx_map_set_val(m1, K("parent"),
                                 [parent EXCEPT !.overlap = size]))
                   ELSE Result(OK, <<>>, m1)
              ELSE Result(OK, <<>>, m1)

\* set_size when the read of the parent key fails with r, an error other
\* than ENOENT (cls_cxx_map_get_val failing, or EIO for a value that does not
\* decode): the size is written by then
set_size_parent_unread(o, size, r) ==
  IF require_feature(o, 0) # OK THEN Fail(require_feature(o, 0), o)
  ELSE
    LET orig == read_key(o.omap, K("size"))
    IN  IF orig.r # OK THEN Fail(orig.r, o)
        ELSE
          LET m1 == cls_cxx_map_set_val(o.omap, K("size"), size)
          IN  IF size < orig.v THEN Result(r, <<>>, m1)
              ELSE Result(OK, <<>>, m1)

(***************************************************************************)
(* Locks.  The lockers are a set of <<locker, cookie>> pairs; locker is    *)
(* the printed entity_inst_t of the client that sent the request.          *)
(***************************************************************************)
\* lock_image as it would be if a shared request did not read the type of
\* the locks held
lock_image_SharedUnchecked(o, who, lock_type, cookie) ==
  LET exclusive == lock_type = RBD_LOCK_EXCLUSIVE
      l == read_key(o.omap, K(RBD_LOCKS_KEY))
      lockers == IF l.r = OK THEN l.v ELSE {}
  IN  IF exclusive /\ l.r # "ENOENT" /\ lockers # {} THEN Fail("EBUSY", o)
      ELSE IF <<who, cookie>> \in lockers THEN Fail("EEXIST", o)
      ELSE
        LET m1 == cls_cxx_map_set_val(o.omap, K(RBD_LOCKS_KEY),
                                      lockers \cup {<<who, cookie>>})
            m2 == cls_cxx_map_set_val(m1, K(RBD_LOCK_TYPE_KEY), lock_type)
        IN  Result(OK, <<>>, m2)

\* lock_image as it would be if it wrote the type only when none is stored
lock_image_TypeOnce(o, who, lock_type, cookie) ==
  LET exclusive == lock_type = RBD_LOCK_EXCLUSIVE
      l == read_key(o.omap, K(RBD_LOCKS_KEY))
      lockers == IF l.r = OK THEN l.v ELSE {}
      t == read_key(o.omap, K(RBD_LOCK_TYPE_KEY))
  IN  IF exclusive /\ l.r # "ENOENT" /\ lockers # {} THEN Fail("EBUSY", o)
      ELSE IF lockers # {} /\ ~exclusive /\ t.r # OK THEN Fail(t.r, o)
      ELSE IF lockers # {} /\ ~exclusive /\ t.v # lock_type
        THEN Fail("EBUSY", o)
      ELSE IF <<who, cookie>> \in lockers THEN Fail("EEXIST", o)
      ELSE
        LET m1 == cls_cxx_map_set_val(o.omap, K(RBD_LOCKS_KEY),
                                      lockers \cup {<<who, cookie>>})
            m2 == IF t.r = OK THEN m1
                  ELSE cls_cxx_map_set_val(m1, K(RBD_LOCK_TYPE_KEY), lock_type)
        IN  Result(OK, <<>>, m2)

\* lock_image as it would be if an exclusive request did not look at the
\* lockers
lock_image_ExclusiveUnchecked(o, who, lock_type, cookie) ==
  LET exclusive == lock_type = RBD_LOCK_EXCLUSIVE
      l == read_key(o.omap, K(RBD_LOCKS_KEY))
      lockers == IF l.r = OK THEN l.v ELSE {}
      t == read_key(o.omap, K(RBD_LOCK_TYPE_KEY))
  IN  IF lockers # {} /\ ~exclusive /\ t.r # OK THEN Fail(t.r, o)
      ELSE IF lockers # {} /\ ~exclusive /\ t.v # lock_type
        THEN Fail("EBUSY", o)
      ELSE IF <<who, cookie>> \in lockers THEN Fail("EEXIST", o)
      ELSE
        LET m1 == cls_cxx_map_set_val(o.omap, K(RBD_LOCKS_KEY),
                                      lockers \cup {<<who, cookie>>})
            m2 == cls_cxx_map_set_val(m1, K(RBD_LOCK_TYPE_KEY), lock_type)
        IN  Result(OK, <<>>, m2)

\* lock_image as it would be if a pair already among the lockers were taken
\* again without complaint
lock_image_NoDupCheck(o, who, lock_type, cookie) ==
  LET exclusive == lock_type = RBD_LOCK_EXCLUSIVE
      l == read_key(o.omap, K(RBD_LOCKS_KEY))
      lockers == IF l.r = OK THEN l.v ELSE {}
      t == read_key(o.omap, K(RBD_LOCK_TYPE_KEY))
  IN  IF exclusive /\ l.r # "ENOENT" /\ lockers # {} THEN Fail("EBUSY", o)
      ELSE IF lockers # {} /\ ~exclusive /\ t.r # OK THEN Fail(t.r, o)
      ELSE IF lockers # {} /\ ~exclusive /\ t.v # lock_type
        THEN Fail("EBUSY", o)
      ELSE
        LET m1 == cls_cxx_map_set_val(o.omap, K(RBD_LOCKS_KEY),
                                      lockers \cup {<<who, cookie>>})
            m2 == cls_cxx_map_set_val(m1, K(RBD_LOCK_TYPE_KEY), lock_type)
        IN  Result(OK, <<>>, m2)

lock_image(o, who, lock_type, cookie) ==
  LET exclusive == lock_type = RBD_LOCK_EXCLUSIVE
      l == read_key(o.omap, K(RBD_LOCKS_KEY))
      lockers == IF l.r = OK THEN l.v ELSE {}
      t == read_key(o.omap, K(RBD_LOCK_TYPE_KEY))
  IN  IF exclusive /\ l.r # "ENOENT" /\ lockers # {} THEN Fail("EBUSY", o)
      ELSE IF lockers # {} /\ ~exclusive /\ t.r # OK THEN Fail(t.r, o)
      ELSE IF lockers # {} /\ ~exclusive /\ t.v # lock_type
        THEN Fail("EBUSY", o)
      ELSE IF <<who, cookie>> \in lockers THEN Fail("EEXIST", o)
      ELSE
        LET m1 == cls_cxx_map_set_val(o.omap, K(RBD_LOCKS_KEY),
                                      lockers \cup {<<who, cookie>>})
            m2 == cls_cxx_map_set_val(m1, K(RBD_LOCK_TYPE_KEY), lock_type)
        IN  Result(OK, <<>>, m2)

lock_image_exclusive(o, who, lock_cookie) ==
  IF require_feature(o, 0) # OK THEN Fail(require_feature(o, 0), o)
  ELSE lock_image(o, who, RBD_LOCK_EXCLUSIVE, lock_cookie)

lock_image_shared(o, who, lock_cookie) ==
  IF require_feature(o, 0) # OK THEN Fail(require_feature(o, 0), o)
  ELSE lock_image(o, who, RBD_LOCK_SHARED, lock_cookie)

\* remove_lock as it would be if it looked for the cookie alone
remove_lock_AnyLocker(o, inst, cookie) ==
  LET l == read_key(o.omap, K(RBD_LOCKS_KEY))
  IN  IF l.r # OK THEN Fail(l.r, o)
      ELSE IF \A p \in l.v : p[2] # cookie THEN Fail("ENOENT", o)
      ELSE Result(OK, <<>>,
                  cls_cxx_map_set_val(o.omap, K(RBD_LOCKS_KEY),
                                      {p \in l.v : p[2] # cookie}))

remove_lock(o, inst, cookie) ==
  LET l == read_key(o.omap, K(RBD_LOCKS_KEY))
  IN  IF l.r # OK THEN Fail(l.r, o)
      ELSE IF <<inst, cookie>> \notin l.v THEN Fail("ENOENT", o)
      ELSE Result(OK, <<>>,
                  cls_cxx_map_set_val(o.omap, K(RBD_LOCKS_KEY),
                                      l.v \ {<<inst, cookie>>}))

unlock_image(o, who, lock_cookie) ==
  IF require_feature(o, 0) # OK THEN Fail(require_feature(o, 0), o)
  ELSE remove_lock(o, who, lock_cookie)

break_lock(o, locker, lock_cookie) ==
  IF require_feature(o, 0) # OK THEN Fail(require_feature(o, 0), o)
  ELSE remove_lock(o, locker, lock_cookie)

\* out is <<lockers, exclusive_lock>>
list_locks(o) ==
  IF require_feature(o, 0) # OK THEN Fail(require_feature(o, 0), o)
  ELSE
    LET l == read_key(o.omap, K(RBD_LOCKS_KEY))
        t == read_key(o.omap, K(RBD_LOCK_TYPE_KEY))
    IN  IF l.r = "ENOENT" THEN Result(OK, <<{}, FALSE>>, o.omap)
        ELSE Result(t.r,
                    <<l.v, t.r = OK /\ t.v = RBD_LOCK_EXCLUSIVE>>, o.omap)

(***************************************************************************)
(* Parent.                                                                 *)
(***************************************************************************)
\* get_parent as it would be if it read the parent of the live image for
\* every snap_id
get_parent_Live(o, snap_id) ==
  IF check_exists(o) # OK THEN Fail(check_exists(o), o)
  ELSE IF require_feature(o, RBD_FEATURE_LAYERING) # OK
    THEN Fail(require_feature(o, RBD_FEATURE_LAYERING), o)
  ELSE
    LET v == read_key(o.omap, K("parent"))
    IN  IF v.r # OK THEN Fail(v.r, o)
        ELSE IF ~ParentExists(v.v) THEN Fail("ENOENT", o)
        ELSE Result(OK, <<v.v.pool, v.v.id, v.v.snapid, v.v.overlap>>,
                    o.omap)

\* out is <<pool, id, snapid, overlap>>
get_parent(o, snap_id) ==
  IF check_exists(o) # OK THEN Fail(check_exists(o), o)
  ELSE IF require_feature(o, RBD_FEATURE_LAYERING) # OK
    THEN Fail(require_feature(o, RBD_FEATURE_LAYERING), o)
  ELSE
    LET k == IF snap_id = CEPH_NOSNAP THEN K("parent")
             ELSE key_from_snap_id(snap_id)
        v == read_key(o.omap, k)
        parent == IF snap_id = CEPH_NOSNAP THEN v.v ELSE v.v.parent
    IN  IF v.r # OK THEN Fail(v.r, o)
        ELSE IF ~ParentExists(parent) THEN Fail("ENOENT", o)
        ELSE Result(OK,
                    <<parent.pool, parent.id, parent.snapid, parent.overlap>>,
                    o.omap)

\* set_parent as it would be if it did not look for a parent already set
set_parent_Overwrite(o, pool, id, snapid, size) ==
  IF check_exists(o) # OK THEN Fail(check_exists(o), o)
  ELSE IF require_feature(o, RBD_FEATURE_LAYERING) # OK
    THEN Fail(require_feature(o, RBD_FEATURE_LAYERING), o)
  ELSE IF pool < 0 \/ id = "" \/ snapid = CEPH_NOSNAP \/ size = 0
    THEN Fail("EINVAL", o)
  ELSE
    LET our_size == read_key(o.omap, K("size"))
    IN  IF our_size.r # OK THEN Fail(our_size.r, o)
        ELSE Result(OK, <<>>,
                    cls_cxx_map_set_val(o.omap, K("parent"),
                      [pool |-> pool, id |-> id, snapid |-> snapid,
                       overlap |-> MIN(our_size.v, size)]))

\* set_parent as it would be if it stored the parent's size as the overlap
set_parent_NoMin(o, pool, id, snapid, size) ==
  IF check_exists(o) # OK THEN Fail(check_exists(o), o)
  ELSE IF require_feature(o, RBD_FEATURE_LAYERING) # OK
    THEN Fail(require_feature(o, RBD_FEATURE_LAYERING), o)
  ELSE IF pool < 0 \/ id = "" \/ snapid = CEPH_NOSNAP \/ size = 0
    THEN Fail("EINVAL", o)
  ELSE IF read_key(o.omap, K("parent")).r = OK THEN Fail("EEXIST", o)
  ELSE
    LET our_size == read_key(o.omap, K("size"))
    IN  IF our_size.r # OK THEN Fail(our_size.r, o)
        ELSE Result(OK, <<>>,
                    cls_cxx_map_set_val(o.omap, K("parent"),
                      [pool |-> pool, id |-> id, snapid |-> snapid,
                       overlap |-> size]))

set_parent(o, pool, id, snapid, size) ==
  IF check_exists(o) # OK THEN Fail(check_exists(o), o)
  ELSE IF require_feature(o, RBD_FEATURE_LAYERING) # OK
    THEN Fail(require_feature(o, RBD_FEATURE_LAYERING), o)
  ELSE IF pool < 0 \/ id = "" \/ snapid = CEPH_NOSNAP \/ size = 0
    THEN Fail("EINVAL", o)
  ELSE IF read_key(o.omap, K("parent")).r = OK THEN Fail("EEXIST", o)
  ELSE
    LET our_size == read_key(o.omap, K("size"))
    IN  IF our_size.r # OK THEN Fail(our_size.r, o)
        ELSE Result(OK, <<>>,
                    cls_cxx_map_set_val(o.omap, K("parent"),
                      [pool |-> pool, id |-> id, snapid |-> snapid,
                       overlap |-> MIN(our_size.v, size)]))

remove_parent(o) ==
  IF check_exists(o) # OK THEN Fail(check_exists(o), o)
  ELSE IF require_feature(o, RBD_FEATURE_LAYERING) # OK
    THEN Fail(require_feature(o, RBD_FEATURE_LAYERING), o)
  ELSE IF read_key(o.omap, K("parent")).r # OK
    THEN Fail(read_key(o.omap, K("parent")).r, o)
  ELSE Result(OK, <<>>, cls_cxx_map_remove_key(o.omap, K("parent")))

(***************************************************************************)
(* Snapshots.  A snapshot record is the cls_rbd_snap                       *)
(* [id, name, image_size, features, parent] under key_from_snap_id(id).    *)
(***************************************************************************)
\* the do-while of get_snapcontext: page after page of keys past last_read
RECURSIVE snapcontext_scan(_, _, _)
snapcontext_scan(m, last_read, snap_ids) ==
  LET keys == cls_cxx_map_get_keys(m, last_read, RBD_MAX_KEYS_READ)
      r == Len(keys)
      ids == snap_ids \o [i \in 1..r |-> snap_id_from_key(keys[i])]
  IN  IF r = RBD_MAX_KEYS_READ THEN snapcontext_scan(m, keys[r], ids)
      ELSE ids

\* std::reverse
Reverse(s) == [i \in 1..Len(s) |-> s[Len(s) + 1 - i]]

\* out is [snap_seq, snap_ids]
get_snapcontext(o) ==
  IF require_feature(o, 0) # OK THEN Fail(require_feature(o, 0), o)
  ELSE
    LET snap_ids == snapcontext_scan(o.omap, K(RBD_SNAP_KEY_PREFIX), <<>>)
        seq == read_key(o.omap, K("snap_seq"))
    IN  IF seq.r # OK THEN Fail(seq.r, o)
        ELSE Result(OK, [snap_seq |-> seq.v, snap_ids |-> Reverse(snap_ids)],
                    o.omap)

get_object_prefix(o) ==
  IF require_feature(o, 0) # OK THEN Fail(require_feature(o, 0), o)
  ELSE
    LET p == read_key(o.omap, K("object_prefix"))
    IN  IF p.r # OK THEN Fail(p.r, o) ELSE Result(OK, p.v, o.omap)

get_snapshot_name(o, snap_id) ==
  IF require_feature(o, 0) # OK THEN Fail(require_feature(o, 0), o)
  ELSE IF snap_id = CEPH_NOSNAP THEN Fail("EINVAL", o)
  ELSE
    LET s == read_key(o.omap, key_from_snap_id(snap_id))
    IN  IF s.r # OK THEN Fail(s.r, o) ELSE Result(OK, s.v.name, o.omap)

\* the scan of snapshot_add as it would be if it compared the ids alone
RECURSIVE snapshot_add_scan_IdOnly(_, _, _, _)
snapshot_add_scan_IdOnly(m, last_read, name, id) ==
  LET vals == cls_cxx_map_get_vals(m, last_read, RBD_SNAP_KEY_PREFIX,
                                   RBD_MAX_KEYS_READ)
      r == Len(vals)
  IN  IF \E i \in 1..r : id = m[vals[i]].id THEN "EEXIST"
      ELSE IF r = RBD_MAX_KEYS_READ
        THEN snapshot_add_scan_IdOnly(m, vals[r], name, id)
      ELSE OK

\* the scan of snapshot_add as it would be if it were left after its first
\* page
snapshot_add_scan_OnePage(m, last_read, name, id) ==
  LET vals == cls_cxx_map_get_vals(m, last_read, RBD_SNAP_KEY_PREFIX,
                                   RBD_MAX_KEYS_READ)
      r == Len(vals)
  IN  IF \E i \in 1..r : name = m[vals[i]].name \/ id = m[vals[i]].id
        THEN "EEXIST"
      ELSE OK

\* the do-while of snapshot_add: -EEXIST when a record on some page has the
\* name or the id
RECURSIVE snapshot_add_scan(_, _, _, _)
snapshot_add_scan(m, last_read, name, id) ==
  LET vals == cls_cxx_map_get_vals(m, last_read, RBD_SNAP_KEY_PREFIX,
                                   RBD_MAX_KEYS_READ)
      r == Len(vals)
  IN  IF \E i \in 1..r : name = m[vals[i]].name \/ id = m[vals[i]].id
        THEN "EEXIST"
      ELSE IF r = RBD_MAX_KEYS_READ
        THEN snapshot_add_scan(m, vals[r], name, id)
      ELSE OK

\* snapshot_add as it would be without the comparison with snap_seq
snapshot_add_NoStale(o, name, id) ==
  IF require_feature(o, 0) # OK THEN Fail(require_feature(o, 0), o)
  ELSE IF id > CEPH_MAXSNAP THEN Fail("EINVAL", o)
  ELSE
    LET cur_snap_seq == read_key(o.omap, K("snap_seq"))
        size == read_key(o.omap, K("size"))
        features == read_key(o.omap, K("features"))
        parent == read_key(o.omap, K("parent"))
    IN  IF cur_snap_seq.r # OK THEN Fail(cur_snap_seq.r, o)
        ELSE IF size.r # OK THEN Fail(size.r, o)
        ELSE IF features.r # OK THEN Fail(features.r, o)
        ELSE IF snapshot_add_scan(o.omap, K(RBD_SNAP_KEY_PREFIX), name, id) # OK
          THEN Fail("EEXIST", o)
        ELSE
          LET snap_meta ==
                [id |-> id, name |-> name, image_size |-> size.v,
                 features |-> features.v,
                 parent |-> IF parent.r = OK THEN parent.v ELSE NoParent]
              m1 == cls_cxx_map_set_val(o.omap, K("snap_seq"), id)
              m2 == cls_cxx_map_set_val(m1, key_from_snap_id(id), snap_meta)
          IN  Result(OK, <<>>, m2)

snapshot_add(o, name, id) ==
  IF require_feature(o, 0) # OK THEN Fail(require_feature(o, 0), o)
  ELSE IF id > CEPH_MAXSNAP THEN Fail("EINVAL", o)
  ELSE
    LET cur_snap_seq == read_key(o.omap, K("snap_seq"))
        size == read_key(o.omap, K("size"))
        features == read_key(o.omap, K("features"))
        parent == read_key(o.omap, K("parent"))
    IN  IF cur_snap_seq.r # OK THEN Fail(cur_snap_seq.r, o)
        ELSE IF id < cur_snap_seq.v THEN Fail("ESTALE", o)
        ELSE IF size.r # OK THEN Fail(size.r, o)
        ELSE IF features.r # OK THEN Fail(features.r, o)
        ELSE IF snapshot_add_scan(o.omap, K(RBD_SNAP_KEY_PREFIX), name, id) # OK
          THEN Fail("EEXIST", o)
        ELSE
          LET snap_meta ==
                [id |-> id, name |-> name, image_size |-> size.v,
                 features |-> features.v,
                 parent |-> IF parent.r = OK THEN parent.v ELSE NoParent]
              m1 == cls_cxx_map_set_val(o.omap, K("snap_seq"), id)
              m2 == cls_cxx_map_set_val(m1, key_from_snap_id(id), snap_meta)
          IN  Result(OK, <<>>, m2)

\* snapshot_remove as it would be if it relied on the removal to find the
\* key missing
snapshot_remove_NoCheck(o, snap_id) ==
  IF require_feature(o, 0) # OK THEN Fail(require_feature(o, 0), o)
  ELSE Result(OK, <<>>,
              cls_cxx_map_remove_key(o.omap, key_from_snap_id(snap_id)))

snapshot_remove(o, snap_id) ==
  IF require_feature(o, 0) # OK THEN Fail(require_feature(o, 0), o)
  ELSE IF ~HasKey(o.omap, key_from_snap_id(snap_id)) THEN Fail("ENOENT", o)
  ELSE Result(OK, <<>>,
              cls_cxx_map_remove_key(o.omap, key_from_snap_id(snap_id)))

get_all_features(o) == Result(OK, RBD_FEATURES_ALL, o.omap)

(***************************************************************************)
(* Old format.  The header object holds struct rbd_obj_header_ondisk, then *)
(* snap_count descriptors (struct rbd_obj_snap_ondisk), then the table of  *)
(* the names, each ended by a NUL.  A buffer of chars is a sequence, a     *)
(* char * is an index into it (from 1), and the fields of the fixed-size   *)
(* header are fields of the record; snaps and names are what follows the   *)
(* header in the object.                                                   *)
(***************************************************************************)
NUL == "NUL"

\* the bytes before the first NUL at or after p; a string that is not
\* ended within the buffer runs to the end of the buffer
strlen(buf, p) ==
  LET stops == {n \in 0..(Len(buf) - p) : buf[p + n] = NUL}
  IN  IF stops = {} THEN Len(buf) - p + 1
      ELSE CHOOSE n \in stops : \A m \in stops : n <= m

\* std::string(const char *): the chars of the C string at p
StringAt(buf, p) == SubSeq(buf, p, p + strlen(buf, p) - 1)

\* std::string::c_str
c_str(s) == s \o <<NUL>>

\* strcmp(buf + p, str) == 0
strcmp(buf, p, str) ==
  IF StringAt(buf, p) = StringAt(str, 1) THEN 0 ELSE 1

\* strncmp as it would be if it compared strlen(buf + p) chars only
strncmp_Prefix(buf, p, str, n) ==
  IF Take(c_str(StringAt(buf, p)), strlen(buf, p)) =
     Take(c_str(StringAt(str, 1)), strlen(buf, p))
  THEN 0 ELSE 1

\* strncmp(buf + p, str, n) == 0: at most n chars are compared, and none
\* after a NUL
strncmp(buf, p, str, n) ==
  IF Take(c_str(StringAt(buf, p)), n) = Take(c_str(StringAt(str, 1)), n)
  THEN 0 ELSE 1

\* cls_cxx_read(hctx, 0, sizeof(*header) + snap_count * sizeof(snap) +
\* snap_names_len, &bl): the header and as much as was asked of what follows
cls_cxx_read(o, snap_count, snap_names_len) ==
  IF ~o.exists THEN [rc |-> "ENOENT", bl |-> <<>>]
  ELSE [rc |-> OK,
        bl |-> [o EXCEPT !.snaps = Take(o.snaps, snap_count),
                         !.names = Take(o.names, snap_names_len)]]

\* the loop as it would be if a read that found the counts it expected were
\* made once more before the loop is left
RECURSIVE snap_read_header_loop_Reread(_, _, _, _)
snap_read_header_loop_Reread(o, snap_count, snap_names_len, reads) ==
  LET r == cls_cxx_read(o, snap_count, snap_names_len)
      header == r.bl
  IN  IF r.rc # OK THEN [rc |-> r.rc, bl |-> <<>>, reads |-> reads + 1]
      ELSE IF \/ snap_count # header.snap_count
              \/ snap_names_len # header.snap_names_len
              \/ reads = 1
        THEN snap_read_header_loop_Reread(o, header.snap_count,
                                          header.snap_names_len, reads + 1)
      ELSE [rc |-> OK, bl |-> r.bl, reads |-> reads + 1]

RECURSIVE snap_read_header_loop(_, _, _, _)
snap_read_header_loop(o, snap_count, snap_names_len, reads) ==
  LET r == cls_cxx_read(o, snap_count, snap_names_len)
      header == r.bl
  IN  IF r.rc # OK THEN [rc |-> r.rc, bl |-> <<>>, reads |-> reads + 1]
      ELSE IF \/ snap_count # header.snap_count
              \/ snap_names_len # header.snap_names_len
        THEN snap_read_header_loop(o, header.snap_count,
                                   header.snap_names_len, reads + 1)
      ELSE [rc |-> OK, bl |-> r.bl, reads |-> reads + 1]

\* reads counts the calls of cls_cxx_read
snap_read_header(o) == snap_read_header_loop(o, 0, 0, 0)

\* the result of an old-format method: data is the object as the method's
\* cls_cxx_write_full leaves it
OldResult(ret, out, data) == [ret |-> ret, out |-> out, data |-> data]

RECURSIVE old_snapshots_list_loop(_, _, _, _)
old_snapshots_list_loop(header, i, name, out) ==
  LET end == 1 + header.snap_names_len
      next == name + strlen(header.names, name) + 1
  IN  IF ~(i < header.snap_count) THEN [ret |-> OK, out |-> out]
      ELSE IF next > end THEN [ret |-> "EIO", out |-> <<>>]
      ELSE old_snapshots_list_loop(header, i + 1, next,
             Append(out, <<header.snaps[i + 1].id,
                           header.snaps[i + 1].image_size,
                           StringAt(header.names, name)>>))

\* out is [snap_seq, snap_count, snaps], snaps the <<id, image_size, name>>
\* in the order they are encoded
old_snapshots_list(o) ==
  LET rc == snap_read_header(o).rc
      header == snap_read_header(o).bl
      l == old_snapshots_list_loop(header, 0, 1, <<>>)
  IN  IF rc # OK THEN OldResult(rc, <<>>, o)
      ELSE IF l.ret # OK THEN OldResult(l.ret, <<>>, o)
      ELSE OldResult(OK,
                     [snap_seq |-> header.snap_seq,
                      snap_count |-> header.snap_count,
                      snaps |-> l.out],
                     o)

\* the loop over the names of old_snapshot_add
RECURSIVE old_snapshot_add_scan(_, _, _, _)
old_snapshot_add_scan(snap_names, cur_snap_name, end, snap_name) ==
  IF cur_snap_name < end
  THEN IF strncmp(snap_names, cur_snap_name, snap_name,
                  end - cur_snap_name) = 0
       THEN "EEXIST"
       ELSE old_snapshot_add_scan(snap_names,
              cur_snap_name + strlen(snap_names, cur_snap_name) + 1,
              end, snap_name)
  ELSE IF cur_snap_name > end THEN "EIO"
  ELSE OK

\* old_snapshot_add as it would be if it put the new snapshot last
old_snapshot_add_Append(o, s, snap_id) ==
  LET rc == snap_read_header(o).rc
      header == snap_read_header(o).bl
      snap_name == c_str(s)
      end == 1 + header.snap_names_len
      scan == old_snapshot_add_scan(header.names, 1, end, snap_name)
      snap_name_len == strlen(snap_name, 1)
  IN  IF rc # OK THEN OldResult(rc, <<>>, o)
      ELSE IF scan # OK THEN OldResult(scan, <<>>, o)
      ELSE OldResult(OK, <<>>,
             [exists |-> TRUE,
              image_size |-> header.image_size,
              snap_seq |-> snap_id,
              snap_count |-> header.snap_count + 1,
              snap_names_len |->
                header.snap_names_len + snap_name_len + 1,
              snaps |-> Take(header.snaps, header.snap_count) \o
                        <<[id |-> snap_id,
                           image_size |-> header.image_size]>>,
              names |-> Take(header.names, header.snap_names_len) \o
                        SubSeq(snap_name, 1, snap_name_len + 1)])

old_snapshot_add(o, s, snap_id) ==
  LET rc == snap_read_header(o).rc
      header == snap_read_header(o).bl
      snap_name == c_str(s)
      end == 1 + header.snap_names_len
      scan == old_snapshot_add_scan(header.names, 1, end, snap_name)
      snap_name_len == strlen(snap_name, 1)
      \* strcpy, then memcpy of the old names
      new_snap_names == SubSeq(snap_name, 1, snap_name_len + 1) \o
                        Take(header.names, header.snap_names_len)
      \* new_snaps[0], then memcpy of the old descriptors
      new_snaps == <<[id |-> snap_id, image_size |-> header.image_size]>> \o
                   Take(header.snaps, header.snap_count)
  IN  IF rc # OK THEN OldResult(rc, <<>>, o)
      ELSE IF scan # OK THEN OldResult(scan, <<>>, o)
      ELSE OldResult(OK, <<>>,
             [exists |-> TRUE,
              image_size |-> header.image_size,
              snap_seq |-> snap_id,
              snap_count |-> header.snap_count + 1,
              snap_names_len |->
                header.snap_names_len + snap_name_len + 1,
              snaps |-> new_snaps,
              names |-> new_snap_names])

\* the loop over the names of old_snapshot_remove: where it stops
RECURSIVE old_snapshot_remove_find(_, _, _, _, _)
old_snapshot_remove_find(names, i, snap_names, end, snap_name) ==
  IF snap_names < end
  THEN IF strcmp(names, snap_names, snap_name) = 0
       THEN [found |-> TRUE, i |-> i, snap_names |-> snap_names]
       ELSE old_snapshot_remove_find(names, i + 1,
              snap_names + strlen(names, snap_names) + 1, end, snap_name)
  ELSE [found |-> FALSE, i |-> i, snap_names |-> snap_names]

\* old_snapshot_remove as it would be if the descriptors after the removed
\* one were copied from header->snaps + i
old_snapshot_remove_Shifted(o, s) ==
  LET rc == snap_read_header(o).rc
      header == snap_read_header(o).bl
      snap_name == c_str(s)
      end == 1 + header.snap_names_len
      f == old_snapshot_remove_find(header.names, 0, 1, end, snap_name)
      i == f.i
      snap_names_len == header.snap_names_len - (Len(s) + 1)
      snap_count == header.snap_count - 1
      snaps_len == IF i > 0 THEN i ELSE 0
      names_len == IF i > 0 THEN f.snap_names - 1 ELSE 0
      snap_names == f.snap_names + Len(s) + 1
      new_snaps == SubSeq(header.snaps, 1, snaps_len) \o
                   ( IF i < snap_count
                     THEN SubSeq(header.snaps, i + 1, i + (snap_count - i))
                     ELSE <<>> )
      new_names == SubSeq(header.names, 1, names_len) \o
                   ( IF i < snap_count
                     THEN SubSeq(header.names, snap_names, end - 1)
                     ELSE <<>> )
  IN  IF rc # OK THEN OldResult(rc, <<>>, o)
      ELSE IF ~f.found THEN OldResult("ENOENT", <<>>, o)
      ELSE OldResult(OK, <<>>,
             [exists |-> TRUE,
              image_size |-> header.image_size,
              snap_seq |-> header.snap_seq,
              snap_count |-> snap_count,
              snap_names_len |-> snap_names_len,
              snaps |-> IF snap_count # 0 THEN new_snaps ELSE <<>>,
              names |-> IF snap_count # 0 THEN new_names ELSE <<>>])

old_snapshot_remove(o, s) ==
  LET rc == snap_read_header(o).rc
      header == snap_read_header(o).bl
      snap_name == c_str(s)
      end == 1 + header.snap_names_len
      f == old_snapshot_remove_find(header.names, 0, 1, end, snap_name)
      i == f.i
      snap_names_len == header.snap_names_len - (Len(s) + 1)
      snap_count == header.snap_count - 1
      \* the descriptors and the names before the removed one
      snaps_len == IF i > 0 THEN i ELSE 0
      names_len == IF i > 0 THEN f.snap_names - 1 ELSE 0
      snap_names == f.snap_names + Len(s) + 1
      \* memcpy(dst, src, n) is SubSeq(src, first, first + n - 1)
      new_snaps == SubSeq(header.snaps, 1, snaps_len) \o
                   ( IF i < snap_count
                     THEN SubSeq(header.snaps, i + 2,
                                 i + 1 + (snap_count - i))
                     ELSE <<>> )
      new_names == SubSeq(header.names, 1, names_len) \o
                   ( IF i < snap_count
                     THEN SubSeq(header.names, snap_names, end - 1)
                     ELSE <<>> )
  IN  IF rc # OK THEN OldResult(rc, <<>>, o)
      ELSE IF ~f.found THEN OldResult("ENOENT", <<>>, o)
      ELSE OldResult(OK, <<>>,
             [exists |-> TRUE,
              image_size |-> header.image_size,
              snap_seq |-> header.snap_seq,
              snap_count |-> snap_count,
              snap_names_len |-> snap_names_len,
              snaps |-> IF snap_count # 0 THEN new_snaps ELSE <<>>,
              names |-> IF snap_count # 0 THEN new_names ELSE <<>>])


(***************************************************************************)
(* The block id counter.  The rbd_info object is [len, max_id]: the bytes  *)
(* it holds and, when it holds a whole struct rbd_info, its max_id.        *)
(***************************************************************************)
\* sizeof(struct rbd_info): one __le64
sizeof_info == 8

\* rbd_assign_bid as it would be if it read an empty object as max_id 0
\* and went on to add 1
rbd_assign_bid_FromOne(o) ==
  LET rc == MIN(o.len, sizeof_info)
      max_id == IF rc # 0 THEN (o.max_id + 1) % (U64Max + 1) ELSE 1
  IN  IF rc # 0 /\ rc < sizeof_info THEN OldResult("EIO", <<>>, o)
      ELSE OldResult(OK, max_id, [len |-> sizeof_info, max_id |-> max_id])

\* cls_cxx_read(hctx, 0, sizeof(info), &bl) returns the bytes read; the
\* method returns out->length(), which is not an error: OK
rbd_assign_bid(o) ==
  LET rc == MIN(o.len, sizeof_info)
      max_id == IF rc # 0 THEN (o.max_id + 1) % (U64Max + 1) ELSE 0
  IN  IF rc # 0 /\ rc < sizeof_info THEN OldResult("EIO", <<>>, o)
      ELSE OldResult(OK, max_id, [len |-> sizeof_info, max_id |-> max_id])

(***************************************************************************)
(* One method call as one OSD operation: the writes of a method that       *)
(* returns an error are discarded with the operation; a write creates the  *)
(* object.                                                                 *)
(***************************************************************************)
\* Commit as it would be if the writes of a failing method were kept
Commit_Partial(o, r) ==
  [exists |-> o.exists \/ r.omap # o.omap, omap |-> r.omap]

Commit(o, r) ==
  IF r.ret # OK THEN o
  ELSE [exists |-> o.exists \/ r.omap # o.omap, omap |-> r.omap]

\* what a client reads from the image: the status and the output
Answer(r) == [ret |-> r.ret, out |-> r.out]

\* what the live image (snap id CEPH_NOSNAP) answers as a snapshot is added
Seen(o, name) ==
  [name |-> name,
   size |-> Answer(get_size(o, CEPH_NOSNAP)),
   features |-> Answer(get_features(o, CEPH_NOSNAP)),
   parent |-> Answer(get_parent(o, CEPH_NOSNAP))]

\* history: for every snapshot there is, what was seen when it was added
Taken(op, args, r) ==
  IF r.ret = OK /\ op = "snapshot_add"
  THEN [id \in DOMAIN taken \cup {args.id} |->
          IF id = args.id THEN Seen(obj, args.name) ELSE taken[id]]
  ELSE IF r.ret = OK /\ op = "snapshot_remove"
  THEN [id \in DOMAIN taken \ {args.snap_id} |-> taken[id]]
  ELSE taken

Exec(op, args, r) ==
  /\ pre' = obj
  /\ call' = [op |-> op, args |-> args]
  /\ res' = [ret |-> r.ret, out |-> r.out]
  /\ obj' = Commit(obj, r)
  /\ taken' = Taken(op, args, r)
  /\ high' = IF r.ret = OK /\ op = "snapshot_add" /\ args.id > high
             THEN args.id ELSE high
  /\ adds' = IF r.ret = OK /\ op = "snapshot_add"
             THEN ( IF adds = <<>> THEN <<args.id>>
                    ELSE <<adds[Len(adds)], args.id>> )
             ELSE adds
  /\ UNCHANGED <<old, old_pre, info, info_pre, bids>>

\* a method of the old format on the header object of an old-format image
ExecOld(op, args, r) ==
  /\ old_pre' = old
  /\ call' = [op |-> op, args |-> args]
  /\ res' = [ret |-> r.ret, out |-> r.out]
  /\ old' = IF r.ret = OK THEN r.data ELSE old
  /\ UNCHANGED <<obj, pre, taken, high, adds, info, info_pre, bids>>

\* rbd_assign_bid on the rbd_info object
ExecInfo(op, args, r) ==
  /\ info_pre' = info
  /\ call' = [op |-> op, args |-> args]
  /\ res' = [ret |-> r.ret, out |-> r.out]
  /\ info' = IF r.ret = OK THEN r.data ELSE info
  /\ bids' = IF r.ret = OK THEN Append(bids, r.out) ELSE bids
  /\ UNCHANGED <<obj, pre, taken, high, adds, old, old_pre>>

(***************************************************************************)
(* Inputs.                                                                 *)
(***************************************************************************)
Sizes == 0..MaxSize
Orders == {12, 22}
FeatureInputs == 0..3
Prefixes == {"", "rb.0", "rb.1"}
SnapIdInputs == (0..MaxSnapId) \cup {16, CEPH_MAXSNAP, CEPH_NOSNAP}
SnapNames == {"a", "b", "c"}
Pools == {-1, 3}
ImageIds == {"", "img"}
ParentSnapIds == {1, CEPH_NOSNAP}
Clients == {"client.1", "client.2"}
Cookies == {"", "ck"}
OldSnapNames == {<<"a">>, <<"a", "b">>, <<"b">>}
OldSnapIds == 0..MaxSnapId
\* the names a std::string can hold: these, and one with a NUL in it
OldRawNames == OldSnapNames \cup {<<"a", NUL, "b">>}

(***************************************************************************)
(* Actions: one per method, its input drawn from the given sets.           *)
(***************************************************************************)
Create(SS, OO, FF, PP) ==
  \E size \in SS, order \in OO, features \in FF, object_prefix \in PP :
    Exec("create",
         [size |-> size, order |-> order, features |-> features,
          object_prefix |-> object_prefix],
         create(obj, size, order, features, object_prefix))

GetFeatures(II) ==
  \E snap_id \in II :
    Exec("get_features", [snap_id |-> snap_id], get_features(obj, snap_id))

GetSize(II) ==
  \E snap_id \in II :
    Exec("get_size", [snap_id |-> snap_id], get_size(obj, snap_id))

SetSize(SS) ==
  \E size \in SS :
    Exec("set_size", [size |-> size], set_size(obj, size))

\* set_size on an image whose parent key cannot be read
SetSizeParentUnread(SS) ==
  \E size \in SS :
    Exec("set_size", [size |-> size],
         set_size_parent_unread(obj, size, "EIO"))

GetParent(II) ==
  \E snap_id \in II :
    Exec("get_parent", [snap_id |-> snap_id], get_parent(obj, snap_id))

SetParent(PP, II, NN, SS) ==
  \E pool \in PP, id \in II, snapid \in NN, size \in SS :
    Exec("set_parent",
         [pool |-> pool, id |-> id, snapid |-> snapid, size |-> size],
         set_parent(obj, pool, id, snapid, size))

RemoveParent == Exec("remove_parent", <<>>, remove_parent(obj))

GetObjectPrefix == Exec("get_object_prefix", <<>>, get_object_prefix(obj))

GetAllFeatures == Exec("get_all_features", <<>>, get_all_features(obj))

GetSnapcontext == Exec("get_snapcontext", <<>>, get_snapcontext(obj))

GetSnapshotName(II) ==
  \E snap_id \in II :
    Exec("get_snapshot_name", [snap_id |-> snap_id],
         get_snapshot_name(obj, snap_id))

SnapshotAdd(NN, II) ==
  \E name \in NN, id \in II :
    Exec("snapshot_add", [name |-> name, id |-> id],
         snapshot_add(obj, name, id))

SnapshotRemove(II) ==
  \E snap_id \in II :
    Exec("snapshot_remove", [snap_id |-> snap_id],
         snapshot_remove(obj, snap_id))

LockExclusive(WW, CC) ==
  \E who \in WW, cookie \in CC :
    Exec("lock_exclusive", [who |-> who, cookie |-> cookie],
         lock_image_exclusive(obj, who, cookie))

LockShared(WW, CC) ==
  \E who \in WW, cookie \in CC :
    Exec("lock_shared", [who |-> who, cookie |-> cookie],
         lock_image_shared(obj, who, cookie))

UnlockImage(WW, CC) ==
  \E who \in WW, cookie \in CC :
    Exec("unlock_image", [who |-> who, cookie |-> cookie],
         unlock_image(obj, who, cookie))

BreakLock(WW, CC) ==
  \E who \in WW, locker \in WW, cookie \in CC :
    Exec("break_lock", [who |-> who, locker |-> locker, cookie |-> cookie],
         break_lock(obj, locker, cookie))

ListLocks == Exec("list_locks", <<>>, list_locks(obj))

OldSnapshotsList == ExecOld("snap_list", <<>>, old_snapshots_list(old))

OldSnapshotAdd ==
  \E s \in OldSnapNames, snap_id \in OldSnapIds :
    ExecOld("snap_add", [s |-> s, snap_id |-> snap_id],
            old_snapshot_add(old, s, snap_id))

OldSnapshotRemove ==
  \E s \in OldSnapNames :
    ExecOld("snap_remove", [s |-> s], old_snapshot_remove(old, s))

\* old_snapshot_remove copies s.length() + 1 chars less than it read: the
\* call stays within its buffers when the name it found is followed by as
\* many chars as that, and is undefined when it is not
old_snapshot_remove_InBounds(o, s) ==
  LET header == snap_read_header(o).bl
      end == 1 + header.snap_names_len
      f == old_snapshot_remove_find(header.names, 0, 1, end, c_str(s))
      snap_count == header.snap_count - 1
      names_len == IF f.i > 0 THEN f.snap_names - 1 ELSE 0
      snap_names == f.snap_names + Len(s) + 1
  IN  (snap_read_header(o).rc = OK /\ f.found) =>
        /\ header.snap_names_len >= Len(s) + 1
        /\ snap_count # 0 =>
             IF f.i < snap_count
             THEN snap_names <= end
             ELSE names_len <= header.snap_names_len - (Len(s) + 1)

\* old_snapshot_remove of any name a client can encode; the calls that copy
\* past a buffer are left out
OldSnapshotRemoveRaw ==
  \E s \in OldRawNames :
    /\ old_snapshot_remove_InBounds(old, s)
    /\ ExecOld("snap_remove", [s |-> s], old_snapshot_remove(old, s))

\* ids are handed out while the counter is below MaxBids
AssignBid ==
  /\ info.max_id < MaxBids
  /\ \E who \in Clients :
       ExecInfo("assign_bid", [who |-> who], rbd_assign_bid(info))

(***************************************************************************)
(* Specifications.                                                         *)
(***************************************************************************)
\* The header object does not exist yet, or it is the header of an
\* old-format image: an object with no omap keys.
\* a header object of the old format that is not there
NoHeader ==
  [exists |-> FALSE, image_size |-> 0, snap_seq |-> 0, snap_count |-> 0,
   snap_names_len |-> 0, snaps |-> <<>>, names |-> <<>>]

\* the header of an old-format image as it is created: no snapshots
NewHeader(image_size) ==
  [NoHeader EXCEPT !.exists = TRUE, !.image_size = image_size]

\* the rbd_info object holds nothing, and no id was handed out
InitInfo ==
  /\ info = [len |-> 0, max_id |-> 0]
  /\ info_pre = info
  /\ bids = <<>>

Init ==
  /\ obj \in {[exists |-> e, omap |-> EmptyMap] : e \in BOOLEAN}
  /\ pre = obj
  /\ call = [op |-> "none", args |-> <<>>]
  /\ res = [ret |-> OK, out |-> <<>>]
  /\ taken = EmptyMap
  /\ high = 0
  /\ adds = <<>>
  /\ old = NoHeader
  /\ old_pre = old
  /\ InitInfo

\* an old-format image, or none, and the rbd_info object
OldInit ==
  /\ obj = [exists |-> FALSE, omap |-> EmptyMap]
  /\ pre = obj
  /\ call = [op |-> "none", args |-> <<>>]
  /\ res = [ret |-> OK, out |-> <<>>]
  /\ taken = EmptyMap
  /\ high = 0
  /\ adds = <<>>
  /\ old \in {NoHeader} \cup {NewHeader(size) : size \in 1..MaxSize}
  /\ old_pre = old
  /\ InitInfo

\* The image attributes and the parent pointer.
Next ==
  \/ Create(Sizes, Orders, FeatureInputs, Prefixes)
  \/ GetFeatures({CEPH_NOSNAP})
  \/ GetSize({CEPH_NOSNAP})
  \/ SetSize(Sizes)
  \/ GetParent({CEPH_NOSNAP})
  \/ SetParent(Pools, ImageIds, ParentSnapIds, Sizes)
  \/ RemoveParent
  \/ GetObjectPrefix
  \/ GetAllFeatures

Spec == Init /\ [][Next]_vars

\* The snapshots of an image.
SnapNext ==
  \/ Create({MaxSize}, {22}, {0, 1}, {"rb.0"})
  \/ SnapshotAdd(SnapNames, SnapIdInputs)
  \/ SnapshotRemove(SnapIdInputs)
  \/ GetSnapcontext
  \/ GetSnapshotName(SnapIdInputs)
  \/ GetSize(SnapIdInputs)
  \/ GetFeatures(SnapIdInputs)

SnapSpec == Init /\ [][SnapNext]_vars

\* The locks of an image.
LockNext ==
  \/ Create({MaxSize}, {22}, {0, 1}, {"rb.0"})
  \/ LockExclusive(Clients, Cookies)
  \/ LockShared(Clients, Cookies)
  \/ UnlockImage(Clients, Cookies)
  \/ BreakLock(Clients, Cookies)
  \/ ListLocks

LockSpec == Init /\ [][LockNext]_vars

\* An image with its snapshots, its parent and its locks: every method of
\* the new format, each with few inputs.
ImageNext ==
  \/ Create({MaxSize}, {22}, {0, 1}, {"rb.0"})
  \/ GetFeatures({0, CEPH_NOSNAP})
  \/ GetSize({0, CEPH_NOSNAP})
  \/ SetSize({1, MaxSize})
  \/ GetSnapcontext
  \/ GetObjectPrefix
  \/ GetSnapshotName({0})
  \/ SnapshotAdd({"a", "b"}, {0, 1})
  \/ SnapshotRemove({0, 1})
  \/ GetAllFeatures
  \/ LockExclusive({"client.1"}, {""})
  \/ LockShared({"client.1"}, {""})
  \/ UnlockImage({"client.1"}, {""})
  \/ BreakLock({"client.1"}, {""})
  \/ ListLocks
  \/ GetParent({0, CEPH_NOSNAP})
  \/ SetParent({3}, {"img"}, {1}, {1, MaxSize})
  \/ RemoveParent

ImageSpec == Init /\ [][ImageNext]_vars

\* The methods of the old format.
OldNext ==
  \/ OldSnapshotsList
  \/ OldSnapshotAdd
  \/ OldSnapshotRemove
  \/ AssignBid

OldSpec == OldInit /\ [][OldNext]_vars

\* the methods registered for the old format and for the rbd_info object
OldOps == {"snap_list", "snap_add", "snap_remove", "assign_bid"}

\* the header object is not one of the old format, and no method of the old
\* format was called
NewFormat == ~old.exists /\ info.len = 0 /\ call.op \notin OldOps

\* a header object of either format, or none, and an rbd_info object that
\* holds nothing or less than a struct rbd_info
AllInit ==
  /\ \/ /\ obj \in {[exists |-> e, omap |-> EmptyMap] : e \in BOOLEAN}
        /\ old = NoHeader
        /\ info = [len |-> 0, max_id |-> 0]
     \/ /\ obj = [exists |-> FALSE, omap |-> EmptyMap]
        /\ old \in {NoHeader} \cup {NewHeader(size) : size \in 1..MaxSize}
        /\ info \in {[len |-> n, max_id |-> 0] : n \in {0, sizeof_info \div 2}}
  /\ pre = obj
  /\ call = [op |-> "none", args |-> <<>>]
  /\ res = [ret |-> OK, out |-> <<>>]
  /\ taken = EmptyMap
  /\ high = 0
  /\ adds = <<>>
  /\ old_pre = old
  /\ info_pre = info
  /\ bids = <<>>

\* Every method: an image is of one format, and its header object is called
\* with the methods of that format; set_size also with a parent key that
\* cannot be read.
AllNext ==
  \/ NewFormat /\ ImageNext
  \/ NewFormat /\ SetSizeParentUnread({1, MaxSize})
  \/ call.op \in OldOps \cup {"none"} /\ OldNext

AllSpec == AllInit /\ [][AllNext]_vars

\* The methods of the old format, called with any name; snapshots are added
\* while the header counts fewer of them than there are names.
OldRawNext ==
  \/ OldSnapshotsList
  \/ old.snap_count < Cardinality(OldSnapNames) /\ OldSnapshotAdd
  \/ OldSnapshotRemoveRaw

OldRawSpec == OldInit /\ [][OldRawNext]_vars

\* the number of snapshots of an image about to fill a page of keys, filling
\* it, past it, and the same for two pages
PageCounts ==
  {RBD_MAX_KEYS_READ - 1, RBD_MAX_KEYS_READ, RBD_MAX_KEYS_READ + 1,
   2 * RBD_MAX_KEYS_READ, 2 * RBD_MAX_KEYS_READ + 1}

\* the name of the snapshot with the id
PageName(id) == ToString(id)

\* the image after create
PageCreated ==
  Commit([exists |-> FALSE, omap |-> EmptyMap],
         create([exists |-> FALSE, omap |-> EmptyMap], MaxSize, 22,
                RBD_FEATURE_LAYERING, "rb.0"))

\* the image after create and snapshot_add(PageName(id), id) for the ids
\* 0, 1, ... n - 1 in this order
PageImage(n) ==
  [exists |-> TRUE,
   omap |->
     [k \in DOMAIN PageCreated.omap \cup
            {key_from_snap_id(id) : id \in 0..(n - 1)} |->
        IF k = K("snap_seq") THEN n - 1
        ELSE IF k \in DOMAIN PageCreated.omap THEN PageCreated.omap[k]
        ELSE [id |-> snap_id_from_key(k),
              name |-> PageName(snap_id_from_key(k)),
              image_size |-> MaxSize,
              features |-> RBD_FEATURE_LAYERING,
              parent |-> NoParent]]]

\* an image with about one or two pages of snapshots
PageInit ==
  \E n \in PageCounts :
    /\ obj = PageImage(n)
    /\ pre = obj
    /\ call = [op |-> "none", args |-> <<>>]
    /\ res = [ret |-> OK, out |-> <<>>]
    /\ taken = [id \in 0..(n - 1) |-> Seen(PageCreated, PageName(id))]
    /\ high = n - 1
    /\ adds = <<n - 2, n - 1>>
    /\ old = NoHeader
    /\ old_pre = old
    /\ InitInfo

\* The scans over the snapshots: snapshot_add with the name of the last
\* snapshot of the second page or a new name, and with an id that is the
\* first of the second page, the first of the third or past the ids there
\* are; snapshot_remove of the first snapshot of a page.
PageNext ==
  \/ GetSnapcontext
  \/ SnapshotAdd({PageName(2 * RBD_MAX_KEYS_READ - 1), "new"},
                 {RBD_MAX_KEYS_READ, 2 * RBD_MAX_KEYS_READ,
                  2 * RBD_MAX_KEYS_READ + 2})
  \/ SnapshotRemove({0, RBD_MAX_KEYS_READ})

PageSpec == PageInit /\ [][PageNext]_vars

(***************************************************************************)
(* What the properties below read off a state.                             *)
(***************************************************************************)
\* the image passes the base feature check of every method
Created(o) == require_feature(o, 0) = OK

FeaturesSupported(f) == BitAnd(f, RBD_FEATURES_ALL) = f

SnapKeys(m) == {k \in DOMAIN m : k.name = RBD_SNAP_KEY_PREFIX}

SnapRecords(m) == {m[k] : k \in SnapKeys(m)}

SnapIdsOf(m) == {s.id : s \in SnapRecords(m)}

Lockers(m) == IF HasKey(m, K(RBD_LOCKS_KEY)) THEN m[K(RBD_LOCKS_KEY)] ELSE {}

HeldExclusive(m) ==
  /\ Lockers(m) # {}
  /\ HasKey(m, K(RBD_LOCK_TYPE_KEY))
  /\ m[K(RBD_LOCK_TYPE_KEY)] = RBD_LOCK_EXCLUSIVE

HeldShared(m) ==
  /\ Lockers(m) # {}
  /\ HasKey(m, K(RBD_LOCK_TYPE_KEY))
  /\ m[K(RBD_LOCK_TYPE_KEY)] = RBD_LOCK_SHARED

StrictlyDescending(s) == \A i \in 1..Len(s) - 1 : s[i] > s[i + 1]

Range(s) == {s[i] : i \in 1..Len(s)}

(***************************************************************************)
(* Image attributes (under Spec).                                          *)
(***************************************************************************)
\* C1: a create with supported features and a non-empty object_prefix on an
\* object that has no object_prefix yet succeeds; get_size(NOSNAP) on the
\* state it leaves returns (order, size), get_features(NOSNAP) returns
\* (features, features & INCOMPATIBLE), and snap_seq is 0.
C1_CreateRoundTrip ==
  ( /\ call.op = "create"
    /\ FeaturesSupported(call.args.features)
    /\ call.args.object_prefix # ""
    /\ ~HasKey(pre.omap, K("object_prefix")) )
  => /\ res.ret = OK
     /\ get_size(obj, CEPH_NOSNAP).ret = OK
     /\ get_size(obj, CEPH_NOSNAP).out = <<call.args.order, call.args.size>>
     /\ get_features(obj, CEPH_NOSNAP).ret = OK
     /\ get_features(obj, CEPH_NOSNAP).out =
          <<call.args.features,
            BitAnd(call.args.features, RBD_FEATURES_INCOMPATIBLE)>>
     /\ read_key(obj.omap, K("snap_seq")).r = OK
     /\ read_key(obj.omap, K("snap_seq")).v = 0

C1_Witness ==
  /\ call.op = "create"
  /\ res.ret = OK
  /\ call.args.features = RBD_FEATURE_LAYERING
  /\ call.args.size = MaxSize
  /\ get_size(obj, CEPH_NOSNAP).out = <<call.args.order, MaxSize>>

\* C2 as stated: each of the three conditions alone decides the error,
\* whatever the other arguments are, and a failing create writes nothing.
C2_AsStated ==
  call.op = "create" =>
    /\ ~FeaturesSupported(call.args.features) => res.ret = "ENOSYS"
    /\ call.args.object_prefix = "" => res.ret = "EINVAL"
    /\ HasKey(pre.omap, K("object_prefix")) => res.ret = "EEXIST"
    /\ res.ret # OK => obj = pre

\* C2 (amended): the three checks are made in this order and the first that
\* fails decides the error: unsupported features give ENOSYS; otherwise an
\* empty object_prefix gives EINVAL; otherwise an object_prefix key already
\* present gives EEXIST.  A failing create leaves the object as it was.
C2_CreateErrors ==
  call.op = "create" =>
    /\ ~FeaturesSupported(call.args.features) => res.ret = "ENOSYS"
    /\ ( /\ FeaturesSupported(call.args.features)
         /\ call.args.object_prefix = "" ) => res.ret = "EINVAL"
    /\ ( /\ FeaturesSupported(call.args.features)
         /\ call.args.object_prefix # ""
         /\ HasKey(pre.omap, K("object_prefix")) ) => res.ret = "EEXIST"
    /\ res.ret # OK => obj = pre

C2_Witness ==
  /\ call.op = "create"
  /\ res.ret = "EEXIST"
  /\ call.args.size # pre.omap[K("size")]
  /\ call.args.object_prefix # pre.omap[K("object_prefix")]
  /\ obj = pre

\* C7: on an image with a parent of overlap V, set_size(n) succeeds and
\* stores size n; the overlap becomes n when n < V and stays V otherwise
\* (V <= n < old size, or n >= old size); pool, id and snapid stay.
C7_SetSizeOverlap ==
  ( /\ call.op = "set_size"
    /\ HasKey(pre.omap, K("parent")) )
  => LET V == pre.omap[K("parent")].overlap
         n == call.args.size
         now == read_key(obj.omap, K("parent"))
     IN  /\ res.ret = OK
         /\ read_key(obj.omap, K("size")).v = n
         /\ now.r = OK
         /\ now.v.pool = pre.omap[K("parent")].pool
         /\ now.v.id = pre.omap[K("parent")].id
         /\ now.v.snapid = pre.omap[K("parent")].snapid
         /\ n < V => now.v.overlap = n
         /\ n >= V => now.v.overlap = V

C7_Witness ==
  /\ call.op = "set_size"
  /\ res.ret = OK
  /\ HasKey(pre.omap, K("parent"))
  /\ 0 < call.args.size
  /\ call.args.size < pre.omap[K("parent")].overlap
  /\ obj.omap[K("parent")].overlap = call.args.size

(***************************************************************************)
(* Snapshots (under SnapSpec).                                             *)
(***************************************************************************)
\* C3: on a created image, whatever snapshot_add and snapshot_remove calls
\* came before, get_snapcontext succeeds and returns the live snap_seq and
\* exactly the ids of the existing snapshots, each once, in strictly
\* descending order; after adding i2 to an image whose only snapshot is
\* i1 < i2 it returns [i2, i1] and snap_seq = i2.
C3_SnapContext ==
  Created(obj) =>
    LET r == get_snapcontext(obj)
    IN  /\ r.ret = OK
        /\ r.out.snap_seq = obj.omap[K("snap_seq")]
        /\ StrictlyDescending(r.out.snap_ids)
        /\ Range(r.out.snap_ids) = SnapIdsOf(obj.omap)
        /\ \A i1 \in SnapIdInputs :
             ( /\ call.op = "snapshot_add"
               /\ res.ret = OK
               /\ SnapIdsOf(pre.omap) = {i1}
               /\ i1 < call.args.id )
             => r.out = [snap_seq |-> call.args.id,
                         snap_ids |-> <<call.args.id, i1>>]

C3_Witness ==
  /\ call.op = "snapshot_remove"
  /\ res.ret = OK
  /\ get_snapcontext(obj).out.snap_ids = <<16, 2>>
  /\ get_snapcontext(obj).out.snap_seq = CEPH_MAXSNAP

\* C4: on a created image a snapshot_add with an id below the current
\* snap_seq fails with ESTALE and leaves the snapshots and snap_seq as they
\* were; an id above CEPH_MAXSNAP fails with EINVAL.
C4_AddStale ==
  ( /\ call.op = "snapshot_add"
    /\ Created(pre) )
  => /\ call.args.id < pre.omap[K("snap_seq")]
          => /\ res.ret = "ESTALE"
             /\ SnapRecords(obj.omap) = SnapRecords(pre.omap)
             /\ SnapKeys(obj.omap) = SnapKeys(pre.omap)
             /\ obj.omap[K("snap_seq")] = pre.omap[K("snap_seq")]
     /\ call.args.id > CEPH_MAXSNAP => res.ret = "EINVAL"

C4_Witness ==
  /\ call.op = "snapshot_add"
  /\ res.ret = "ESTALE"
  /\ call.args.id \notin SnapIdsOf(pre.omap)
  /\ \A s \in SnapRecords(pre.omap) : s.name # call.args.name
  /\ SnapRecords(pre.omap) # {}

NoTwoAlike(m) ==
  \A k1, k2 \in SnapKeys(m) :
    k1 # k2 => m[k1].name # m[k2].name /\ m[k1].id # m[k2].id

Duplicates(m, name, id) ==
  \E s \in SnapRecords(m) : s.name = name \/ s.id = id

\* C5 as stated, read for the ids a snapshot may have (C4 has the others):
\* a snapshot_add that names an existing snapshot's name or id fails with
\* EEXIST, and no two snapshots share a name or an id.
C5_AsStated ==
  /\ ( /\ call.op = "snapshot_add"
       /\ Created(pre)
       /\ call.args.id <= CEPH_MAXSNAP
       /\ Duplicates(pre.omap, call.args.name, call.args.id) )
     => res.ret = "EEXIST"
  /\ NoTwoAlike(obj.omap)

\* C5 (amended): a snapshot_add that names an existing snapshot's name or id
\* never succeeds: it fails with EEXIST when its id is neither above
\* CEPH_MAXSNAP (EINVAL) nor below snap_seq (ESTALE), the two checks made
\* before the scan.  In every reachable state no two snapshots share a name
\* or an id.
C5_AddDuplicate ==
  /\ ( /\ call.op = "snapshot_add"
       /\ Created(pre)
       /\ Duplicates(pre.omap, call.args.name, call.args.id) )
     => /\ res.ret # OK
        /\ ( /\ call.args.id <= CEPH_MAXSNAP
             /\ call.args.id >= pre.omap[K("snap_seq")] )
           => res.ret = "EEXIST"
        /\ call.args.id > CEPH_MAXSNAP => res.ret = "EINVAL"
        /\ call.args.id < pre.omap[K("snap_seq")] => res.ret = "ESTALE"
  /\ NoTwoAlike(obj.omap)

C5_Witness ==
  /\ call.op = "snapshot_add"
  /\ res.ret = "EEXIST"
  /\ call.args.id \notin SnapIdsOf(pre.omap)
  /\ Cardinality(SnapKeys(obj.omap)) = 2

\* C6: on a created image snapshot_remove(id) fails with ENOENT and changes
\* nothing when no snapshot has that id; otherwise it succeeds and deletes
\* that record alone: get_snapshot_name(id), get_size(id) and
\* get_features(id) then fail with ENOENT and every other key of the object
\* keeps its value.
C6_Remove ==
  ( /\ call.op = "snapshot_remove"
    /\ Created(pre) )
  => IF call.args.snap_id \notin SnapIdsOf(pre.omap)
     THEN /\ res.ret = "ENOENT"
          /\ obj = pre
     ELSE /\ res.ret = OK
          /\ SnapRecords(obj.omap) =
               {s \in SnapRecords(pre.omap) : s.id # call.args.snap_id}
          /\ get_snapshot_name(obj, call.args.snap_id).ret = "ENOENT"
          /\ get_size(obj, call.args.snap_id).ret = "ENOENT"
          /\ get_features(obj, call.args.snap_id).ret = "ENOENT"
          /\ \A k \in DOMAIN obj.omap :
               HasKey(pre.omap, k) /\ obj.omap[k] = pre.omap[k]
          /\ Cardinality(DOMAIN obj.omap) = Cardinality(DOMAIN pre.omap) - 1

C6_Witness ==
  /\ call.op = "snapshot_remove"
  /\ res.ret = OK
  /\ Cardinality(SnapKeys(pre.omap)) = 3
  /\ Cardinality(SnapKeys(obj.omap)) = 2
  /\ call.args.snap_id = 2

(***************************************************************************)
(* Locks (under LockSpec).                                                 *)
(***************************************************************************)
LockOps == {"lock_exclusive", "lock_shared"}

\* C8: while the lockers are not empty every lock_exclusive fails with
\* EBUSY, whoever asks and with whatever cookie; while the image is held
\* under an exclusive lock every lock_shared fails with EBUSY; a lock request
\* that fails with EBUSY leaves the lockers and the lock type as they were.
C8_Busy ==
  /\ ( /\ call.op = "lock_exclusive"
       /\ Lockers(pre.omap) # {} ) => res.ret = "EBUSY"
  /\ ( /\ call.op = "lock_shared"
       /\ HeldExclusive(pre.omap) ) => res.ret = "EBUSY"
  /\ ( /\ call.op \in LockOps
       /\ res.ret = "EBUSY" )
     => /\ Lockers(obj.omap) = Lockers(pre.omap)
        /\ read_key(obj.omap, K(RBD_LOCK_TYPE_KEY)) =
             read_key(pre.omap, K(RBD_LOCK_TYPE_KEY))
        /\ obj = pre

C8_Witness ==
  /\ call.op = "lock_exclusive"
  /\ res.ret = "EBUSY"
  /\ HeldShared(pre.omap)
  /\ <<call.args.who, call.args.cookie>> \in Lockers(pre.omap)

\* C9: on a created image that is unlocked (no lockers, whatever type is
\* stored) or held by shared locks, a lock_shared whose (requester, cookie)
\* is not among the lockers succeeds; list_locks then returns the earlier
\* lockers and the new pair, and exclusive = false: after two lock_shared
\* calls with distinct pairs both pairs are listed.
C9_Shared ==
  ( /\ call.op = "lock_shared"
    /\ Created(pre)
    /\ ~HeldExclusive(pre.omap)
    /\ <<call.args.who, call.args.cookie>> \notin Lockers(pre.omap) )
  => /\ res.ret = OK
     /\ list_locks(obj).ret = OK
     /\ list_locks(obj).out =
          << Lockers(pre.omap) \cup {<<call.args.who, call.args.cookie>>},
             FALSE >>

C9_Witness ==
  /\ call.op = "lock_shared"
  /\ res.ret = OK
  /\ HeldShared(pre.omap)
  /\ Cardinality(list_locks(obj).out[1]) = 2
  /\ \E p \in Lockers(pre.omap) : p[1] # call.args.who

\* C10: on a created image unlock_image(cookie) removes the pair
\* (caller, cookie) and break_lock(locker, cookie) the pair (locker, cookie),
\* whoever calls; every other pair stays; when the pair is not among the
\* lockers the call fails with ENOENT and nothing changes.
C10_Remove ==
  ( /\ call.op \in {"unlock_image", "break_lock"}
    /\ Created(pre) )
  => LET pair == IF call.op = "unlock_image"
                 THEN <<call.args.who, call.args.cookie>>
                 ELSE <<call.args.locker, call.args.cookie>>
     IN  IF pair \in Lockers(pre.omap)
         THEN /\ res.ret = OK
              /\ Lockers(obj.omap) = Lockers(pre.omap) \ {pair}
         ELSE /\ res.ret = "ENOENT"
              /\ obj = pre

C10_Witness ==
  /\ call.op = "break_lock"
  /\ res.ret = OK
  /\ call.args.who # call.args.locker
  /\ <<call.args.who, call.args.cookie>> \in Lockers(obj.omap)
  /\ Cardinality(Lockers(pre.omap)) = 3

\* C11 as stated: every lock request (lock_exclusive or lock_shared) whose
\* (requester, cookie) pair is already among the lockers fails with EEXIST.
C11_AsStated ==
  ( /\ call.op \in LockOps
    /\ <<call.args.who, call.args.cookie>> \in Lockers(pre.omap) )
  => res.ret = "EEXIST"

\* C11: a lock request whose (requester, cookie) pair is already among the
\* lockers never succeeds and changes nothing: a lock_shared on an image held
\* by shared locks fails with EEXIST; a lock_exclusive, and a lock_shared on
\* an image held by an exclusive lock, fail with EBUSY.
C11_Duplicate ==
  ( /\ call.op \in LockOps
    /\ <<call.args.who, call.args.cookie>> \in Lockers(pre.omap) )
  => /\ res.ret =
          IF call.op = "lock_shared" /\ HeldShared(pre.omap)
          THEN "EEXIST" ELSE "EBUSY"
     /\ obj = pre

C11_Witness ==
  /\ call.op = "lock_shared"
  /\ res.ret = "EEXIST"
  /\ <<call.args.who, call.args.cookie>> \in Lockers(pre.omap)
  /\ Cardinality(Lockers(pre.omap)) = 2
  /\ obj = pre

(***************************************************************************)
(* The old format (under OldSpec).                                         *)
(***************************************************************************)
\* the header declares what the object holds: snap_count descriptors and
\* snap_names_len chars of names, one name ended by a NUL per descriptor
WellFormed(o) ==
  /\ o.exists
  /\ Len(o.snaps) = o.snap_count
  /\ Len(o.names) = o.snap_names_len
  /\ Cardinality({p \in 1..Len(o.names) : o.names[p] = NUL}) = o.snap_count
  /\ o.names # <<>> => o.names[Len(o.names)] = NUL

\* the <<id, image_size, name>> that old_snapshots_list returns
Listed(o) == old_snapshots_list(o).out.snaps

ListedNames(o) == {Listed(o)[i][3] : i \in 1..Len(Listed(o))}

Position(o, name) ==
  IF name \notin ListedNames(o) THEN 0
  ELSE CHOOSE i \in 1..Len(Listed(o)) : Listed(o)[i][3] = name

Without(list, i) == SubSeq(list, 1, i - 1) \o SubSeq(list, i + 1, Len(list))

\* C13: old_snapshot_remove(name) of a name that is in the table of a
\* well-formed header, at whatever position (first, middle, last, only),
\* succeeds and leaves a header whose old_snapshots_list omits exactly that
\* entry: every other (id, image_size, name) is unchanged and in the same
\* relative order, and snap_seq is as before.
C13_OldRemove ==
  ( /\ call.op = "snap_remove"
    /\ WellFormed(old_pre)
    /\ call.args.s \in ListedNames(old_pre) )
  => /\ res.ret = OK
     /\ old_snapshots_list(old).ret = OK
     /\ old_snapshots_list(old).out =
          [snap_seq |-> old_pre.snap_seq,
           snap_count |-> old_pre.snap_count - 1,
           snaps |-> Without(Listed(old_pre),
                             Position(old_pre, call.args.s))]

C13_Witness ==
  /\ call.op = "snap_remove"
  /\ res.ret = OK
  /\ WellFormed(old_pre)
  /\ Len(Listed(old_pre)) = 3
  /\ Position(old_pre, call.args.s) = 2
  /\ Listed(old) = << <<0, old_pre.image_size, <<"b">> >>,
                      <<2, old_pre.image_size, <<"a">> >> >>

\* C14: starting from an empty rbd_info object, the k-th successful
\* rbd_assign_bid returns k - 1, whoever the callers are and in whatever order
\* they call: the ids handed out are 0, 1, 2, ... with none repeated and
\* none skipped.
C14_AssignBid ==
  /\ \A k \in 1..Len(bids) : bids[k] = k - 1
  /\ call.op = "assign_bid" => /\ res.ret = OK
                               /\ res.out = Len(bids) - 1
                               /\ info = [len |-> sizeof_info,
                                          max_id |-> res.out]

C14_Witness ==
  /\ call.op = "assign_bid"
  /\ res.ret = OK
  /\ info_pre.len = sizeof_info
  /\ bids = <<0, 1, 2>>

(***************************************************************************)
(* The parent pointer (under Spec).                                        *)
(***************************************************************************)
\* the image passes the checks of the parent methods: it exists and has the
\* layering feature
Layered(o) ==
  check_exists(o) = OK /\ require_feature(o, RBD_FEATURE_LAYERING) = OK

HasParent(o) == HasKey(o.omap, K("parent"))

\* the arguments pass the check of set_parent
ValidParent(a) ==
  a.pool >= 0 /\ a.id # "" /\ a.snapid # CEPH_NOSNAP /\ a.size > 0

\* C15: on an image with the layering feature, no parent and live size S,
\* set_parent(pool, image_id, snap_id, size) with pool >= 0, a non-empty
\* image_id, snap_id other than CEPH_NOSNAP and size > 0 succeeds and stores
\* overlap = min(S, size); get_parent(CEPH_NOSNAP) then returns (pool,
\* image_id, snap_id, min(S, size)).  A set_parent whose input breaks one of
\* the four conditions fails with EINVAL and stores nothing.
C15_SetParent ==
  ( /\ call.op = "set_parent"
    /\ Layered(pre) )
  => IF ~ValidParent(call.args)
     THEN /\ res.ret = "EINVAL"
          /\ obj = pre
     ELSE ~HasParent(pre) =>
          LET overlap == MIN(get_size(pre, CEPH_NOSNAP).out[2],
                             call.args.size)
          IN  /\ res.ret = OK
              /\ read_key(obj.omap, K("parent")).r = OK
              /\ read_key(obj.omap, K("parent")).v.overlap = overlap
              /\ get_parent(obj, CEPH_NOSNAP).ret = OK
              /\ get_parent(obj, CEPH_NOSNAP).out =
                   <<call.args.pool, call.args.id, call.args.snapid,
                     overlap>>

C15_Witness ==
  /\ call.op = "set_parent"
  /\ res.ret = OK
  /\ ~HasParent(pre)
  /\ get_size(pre, CEPH_NOSNAP).out[2] = 1
  /\ call.args.size = 2
  /\ get_parent(obj, CEPH_NOSNAP).out = <<3, "img", 1, 1>>

\* C16 as stated: whenever a parent is set, set_parent fails with EEXIST and
\* the stored pointer is unchanged; get_parent(CEPH_NOSNAP) fails with ENOENT
\* exactly when no parent is set.
C16_AsStated ==
  /\ ( /\ call.op = "set_parent"
       /\ HasParent(pre) )
     => /\ res.ret = "EEXIST"
        /\ read_key(obj.omap, K("parent")) = read_key(pre.omap, K("parent"))
  /\ Layered(obj) =>
       ( get_parent(obj, CEPH_NOSNAP).ret = "ENOENT" <=> ~HasParent(obj) )

\* C16: set_parent never overwrites a parent: while a parent is set, a
\* set_parent whose arguments pass the check of C15 fails with EEXIST and one
\* whose arguments do not fails with EINVAL, and the object stays as it was.
\* On an image with the layering feature get_parent(CEPH_NOSNAP) fails with
\* ENOENT exactly when no parent is set and succeeds otherwise, so set_parent
\* returns EEXIST only where get_parent(CEPH_NOSNAP) succeeds.
C16_NoOverwrite ==
  /\ ( /\ call.op = "set_parent"
       /\ HasParent(pre) )
     => /\ res.ret = IF ValidParent(call.args) THEN "EEXIST" ELSE "EINVAL"
        /\ obj = pre
  /\ Layered(obj) =>
       /\ get_parent(obj, CEPH_NOSNAP).ret = "ENOENT" <=> ~HasParent(obj)
       /\ get_parent(obj, CEPH_NOSNAP).ret = OK <=> HasParent(obj)
  /\ ( /\ call.op = "set_parent"
       /\ res.ret = "EEXIST" )
     => /\ get_parent(pre, CEPH_NOSNAP).ret = OK
        /\ get_parent(obj, CEPH_NOSNAP) = get_parent(pre, CEPH_NOSNAP)

C16_Witness ==
  /\ call.op = "set_parent"
  /\ res.ret = "EEXIST"
  /\ call.args.size = 1
  /\ get_parent(obj, CEPH_NOSNAP).ret = OK
  /\ get_parent(obj, CEPH_NOSNAP).out[4] = 2

(***************************************************************************)
(* Snapshots of an image with a parent and locks (under ImageSpec).        *)
(***************************************************************************)
\* C17: a snapshot added while the image has a parent keeps a copy of the
\* pointer: get_parent(snap_id) returns the pointer and the overlap that
\* get_parent(CEPH_NOSNAP) returned when the snapshot was added, whatever
\* remove_parent and clamping set_size calls came later, while
\* get_parent(CEPH_NOSNAP) fails with ENOENT after remove_parent; for a
\* snapshot added while no parent was set get_parent(snap_id) fails with
\* ENOENT, also after a parent is set.
C17_FrozenParent ==
  /\ DOMAIN taken = SnapIdsOf(obj.omap)
  /\ \A id \in DOMAIN taken :
       Answer(get_parent(obj, id)) = taken[id].parent
  /\ ( /\ call.op = "remove_parent"
       /\ res.ret = OK )
     => get_parent(obj, CEPH_NOSNAP).ret = "ENOENT"

C17_Witness ==
  /\ call.op = "remove_parent"
  /\ res.ret = OK
  /\ get_size(obj, CEPH_NOSNAP).out[2] = 1
  /\ get_parent(pre, CEPH_NOSNAP).out = <<3, "img", 1, 1>>
  /\ 0 \in DOMAIN taken
  /\ get_parent(obj, 0).ret = OK
  /\ get_parent(obj, 0).out = <<3, "img", 1, MaxSize>>
  /\ 1 \in DOMAIN taken
  /\ get_parent(obj, 1).ret = "ENOENT"

\* C18: a snapshot record is never changed between its snapshot_add and its
\* snapshot_remove: get_size(id), get_features(id) and get_snapshot_name(id)
\* return the size and the features the live image had when the snapshot was
\* added and the name it was given, whatever set_size, set_parent,
\* remove_parent, lock calls and adds and removes of other snapshots came
\* later.
C18_FrozenRecord ==
  /\ \A id \in DOMAIN taken :
       /\ Answer(get_size(obj, id)) = taken[id].size
       /\ Answer(get_features(obj, id)) = taken[id].features
       /\ Answer(get_snapshot_name(obj, id)) =
            [ret |-> OK, out |-> taken[id].name]
       /\ taken[id].size.ret = OK
       /\ taken[id].features.ret = OK
  /\ \A k \in SnapKeys(pre.omap) \cap SnapKeys(obj.omap) :
       obj.omap[k] = pre.omap[k]

C18_Witness ==
  /\ call.op = "snapshot_remove"
  /\ res.ret = OK
  /\ call.args.snap_id = 1
  /\ 0 \in DOMAIN taken
  /\ get_size(obj, 0).out[2] = MaxSize
  /\ get_size(obj, CEPH_NOSNAP).out[2] = 1
  /\ get_snapshot_name(obj, 0).out = "b"
  /\ get_parent(obj, 0).ret = "ENOENT"
  /\ HasParent(obj)
  /\ HeldShared(obj.omap)

\* the methods that begin with require_feature, and those of them that
\* require the layering feature
ParentOps == {"get_parent", "set_parent", "remove_parent"}

GatedOps ==
  {"get_size", "set_size", "get_snapcontext", "get_object_prefix",
   "get_snapshot_name", "snapshot_add", "snapshot_remove",
   "lock_exclusive", "lock_shared", "unlock_image", "break_lock",
   "list_locks"} \cup ParentOps

\* C19: every method that checks features (get_size, set_size,
\* get_snapcontext, get_object_prefix, get_snapshot_name, snapshot_add,
\* snapshot_remove, the lock methods, the parent methods) fails with ENOENT
\* when the header object does not exist and with ENOEXEC when it exists
\* without a features key; get_parent, set_parent and remove_parent fail with
\* ENOEXEC when the features lack the layering bit; none of these failures
\* changes the object.
C19_Gating ==
  /\ ( /\ call.op \in GatedOps
       /\ ~pre.exists )
     => /\ res.ret = "ENOENT"
        /\ obj = pre
  /\ ( /\ call.op \in GatedOps
       /\ pre.exists
       /\ ~HasKey(pre.omap, K("features")) )
     => /\ res.ret = "ENOEXEC"
        /\ obj = pre
  /\ ( /\ call.op \in ParentOps
       /\ HasKey(pre.omap, K("features"))
       /\ BitAnd(pre.omap[K("features")], RBD_FEATURE_LAYERING) = 0 )
     => /\ res.ret = "ENOEXEC"
        /\ obj = pre

C19_Witness ==
  /\ call.op = "snapshot_add"
  /\ pre.exists
  /\ ~HasKey(pre.omap, K("features"))
  /\ res.ret = "ENOEXEC"
  /\ obj = pre

C21_Overlap ==
  Created(obj) =>
    /\ HasParent(obj) =>
         /\ read_key(obj.omap, K("size")).r = OK
         /\ obj.omap[K("parent")].overlap <= read_key(obj.omap, K("size")).v
    /\ \A s \in SnapRecords(obj.omap) :
         ParentExists(s.parent) => s.parent.overlap <= s.image_size

C21_Witness ==
  /\ call.op = "set_size"
  /\ res.ret = OK
  /\ call.args.size = 1
  /\ HasParent(pre)
  /\ pre.omap[K("parent")].overlap = MaxSize
  /\ obj.omap[K("parent")].overlap = 1
  /\ \E s \in SnapRecords(obj.omap) :
       /\ ParentExists(s.parent)
       /\ s.parent.overlap = MaxSize
       /\ s.image_size = MaxSize
  /\ \E s \in SnapRecords(obj.omap) :
       /\ ParentExists(s.parent)
       /\ s.parent.overlap = 1
       /\ s.image_size = MaxSize

\* the lock type that is stored, or "none"
LockType(m) ==
  IF HasKey(m, K(RBD_LOCK_TYPE_KEY)) THEN m[K(RBD_LOCK_TYPE_KEY)] ELSE "none"

\* C22: in every state reached by lock_exclusive, lock_shared, unlock_image
\* and break_lock calls of any clients, if the stored lock type is exclusive
\* there is at most one locker: two or more lockers always have the type
\* shared.
C22_ExclusiveAlone ==
  /\ LockType(obj.omap) = RBD_LOCK_EXCLUSIVE
       => Cardinality(Lockers(obj.omap)) <= 1
  /\ Cardinality(Lockers(obj.omap)) >= 2
       => LockType(obj.omap) = RBD_LOCK_SHARED

C22_Witness ==
  /\ call.op = "lock_exclusive"
  /\ res.ret = OK
  /\ LockType(pre.omap) = RBD_LOCK_SHARED
  /\ LockType(obj.omap) = RBD_LOCK_EXCLUSIVE
  /\ Cardinality(Lockers(obj.omap)) = 1

\* the stored snap_seq of a created image
SnapSeq(o) == read_key(o.omap, K("snap_seq")).v

\* C23: in every state of a created image snap_seq is the highest id a
\* snapshot_add has succeeded with (0 if none did) and is >= the id of every
\* snapshot there is; no call lowers it, and snapshot_remove leaves it as it
\* was.
C23_SnapSeq ==
  /\ Created(obj) =>
       /\ read_key(obj.omap, K("snap_seq")).r = OK
       /\ SnapSeq(obj) = high
       /\ \A id \in SnapIdsOf(obj.omap) : id <= SnapSeq(obj)
  /\ Created(pre) =>
       /\ Created(obj)
       /\ SnapSeq(obj) >= SnapSeq(pre)
       /\ call.op = "snapshot_remove" => SnapSeq(obj) = SnapSeq(pre)

C23_Witness ==
  /\ call.op = "snapshot_remove"
  /\ res.ret = OK
  /\ call.args.snap_id = 16
  /\ SnapSeq(obj) = 16
  /\ high = 16
  /\ SnapIdsOf(obj.omap) = {1}

(***************************************************************************)
(* The old format, called with any name (under OldRawSpec).                *)
(***************************************************************************)
\* C24 as stated: after any old_snapshot_add and old_snapshot_remove calls
\* on a well-formed header the object holds snap_count descriptors and
\* snap_count names, snap_names_len is the sum of the lengths of the names
\* with their NULs (the names are all that follows the descriptors, so the
\* object is as long as the header declares), and old_snapshots_list does
\* not fail with EIO.  It is violated: old_snapshot_remove finds the name
\* with strcmp, which stops at the first NUL of the given name, and then
\* takes s.length() + 1 chars out of the table.
C24_AsStated ==
  old.exists =>
    /\ WellFormed(old)
    /\ Len(Listed(old)) = old.snap_count
    /\ old_snapshots_list(old).ret # "EIO"

(***************************************************************************)
(* The block id counter (under OldSpec).                                   *)
(***************************************************************************)
\* the max_id an rbd_info object counts as: 0 when it holds nothing
MaxIdOf(o) == IF o.len = 0 THEN 0 ELSE o.max_id

\* C25 as stated: a successful rbd_assign_bid leaves in the object the
\* max_id of before the call plus 1, an empty object counting as max_id 0,
\* and returns what it stored.  It is violated by the first call: on the
\* empty object it stores 0 and returns 0.
C25_AsStated ==
  (call.op = "assign_bid" /\ res.ret = OK) =>
    /\ info.max_id = MaxIdOf(info_pre) + 1
    /\ res.out = info.max_id

\* C25: a successful rbd_assign_bid on an object that holds a whole struct
\* rbd_info stores its max_id plus 1 (as a u64), and on an empty object stores
\* max_id 0; in both cases it writes a whole struct rbd_info and returns the
\* max_id it stored.
C25_Increment ==
  (call.op = "assign_bid" /\ res.ret = OK) =>
    /\ info.len = sizeof_info
    /\ res.out = info.max_id
    /\ info.max_id = IF info_pre.len = 0 THEN 0
                     ELSE (info_pre.max_id + 1) % (U64Max + 1)

\* the second call: the first, on the empty object, has returned 0
C25_Witness ==
  /\ call.op = "assign_bid"
  /\ res.ret = OK
  /\ bids = <<0, 1>>
  /\ info_pre = [len |-> sizeof_info, max_id |-> 0]
  /\ info = [len |-> sizeof_info, max_id |-> 1]

C27_TwoReads ==
  LET r == snap_read_header(old)
  IN  /\ r.reads <= 2
      /\ ~old.exists => (r.rc = "ENOENT" /\ r.reads = 1)
      /\ old.exists =>
           /\ r.rc = OK
           /\ r.reads = IF old.snap_count = 0 /\ old.snap_names_len = 0
                        THEN 1 ELSE 2
           /\ Len(r.bl.snaps) = old.snap_count
           /\ Len(r.bl.names) = old.snap_names_len
           /\ r.bl = old

\* old_snapshots_list has read a header with two snapshots in two reads
C27_Witness ==
  /\ call.op = "snap_list"
  /\ res.ret = OK
  /\ res.out.snap_count = 2
  /\ old.snap_names_len = 5
  /\ snap_read_header(old).reads = 2

(***************************************************************************)
(* What create writes once (under ImageSpec).                              *)
(***************************************************************************)
\* the keys that only create writes
Identity(m) ==
  [k \in {"object_prefix", "order", "features"} |->
     IF HasKey(m, K(k)) THEN <<m[K(k)]>> ELSE <<>>]

\* C28: on a created image no method changes object_prefix, order or
\* features: the three keys are there after every call with the values they
\* had before it, whatever method was called and whether it succeeded, and
\* a create on a created image fails.
C28_Identity ==
  Created(pre) =>
    /\ Created(obj)
    /\ \A k \in DOMAIN Identity(pre.omap) : Identity(pre.omap)[k] # <<>>
    /\ Identity(obj.omap) = Identity(pre.omap)
    /\ call.op = "create" => res.ret # OK

\* a second create, with other features, on an image that has a snapshot, a
\* parent and a lock
C28_Witness ==
  /\ call.op = "create"
  /\ call.args.features = 0
  /\ res.ret = "EEXIST"
  /\ Created(pre)
  /\ Identity(obj.omap).features = <<1>>
  /\ SnapIdsOf(obj.omap) # {}
  /\ HasParent(obj)
  /\ Lockers(obj.omap) # {}

(***************************************************************************)
(* A lock type left behind (under LockSpec).                               *)
(***************************************************************************)
\* the lock type a lock method asks for
Requested(op) ==
  IF op = "lock_exclusive" THEN RBD_LOCK_EXCLUSIVE ELSE RBD_LOCK_SHARED

\* C29: on a created image with no lockers, whatever lock type is stored
\* from the locks that were released, a lock_exclusive or lock_shared of any
\* client with any cookie succeeds; after it the stored lock type is the one
\* asked for and the client is the one locker.
C29_StaleType ==
  ( /\ call.op \in LockOps
    /\ Created(pre)
    /\ Lockers(pre.omap) = {} ) =>
      /\ res.ret = OK
      /\ LockType(obj.omap) = Requested(call.op)
      /\ Lockers(obj.omap) = {<<call.args.who, call.args.cookie>>}

\* a lock_shared after the exclusive lock was released: the lockers key is
\* there and empty, the lock type still exclusive
C29_Witness ==
  /\ call.op = "lock_shared"
  /\ res.ret = OK
  /\ HasKey(pre.omap, K(RBD_LOCKS_KEY))
  /\ Lockers(pre.omap) = {}
  /\ LockType(pre.omap) = RBD_LOCK_EXCLUSIVE
  /\ LockType(obj.omap) = RBD_LOCK_SHARED

(***************************************************************************)
(* The ids of the snapshots in the order of the calls (under SnapSpec).    *)
(***************************************************************************)
\* C30: whatever the order in which snapshot_add and snapshot_remove calls
\* of any clients are run, a successful snapshot_add has an id that is not
\* below the id of the successful snapshot_add before it; the snapshots
\* there are are those added and not removed since, and a snapshot_add
\* succeeds only with an id no snapshot has: two succeed with one id only
\* when the snapshot of the first was removed before the second was run.
C30_AddOrder ==
  /\ Len(adds) = 2 => adds[1] <= adds[2]
  /\ SnapIdsOf(obj.omap) = DOMAIN taken
  /\ (call.op = "snapshot_add" /\ res.ret = OK) =>
       /\ adds[Len(adds)] = call.args.id
       /\ call.args.id \notin SnapIdsOf(pre.omap)
       /\ call.args.id \in SnapIdsOf(obj.omap)

\* the second of two snapshot_add with id 1: the snapshot of the first was
\* removed, another snapshot is there
C30_Witness ==
  /\ call.op = "snapshot_add"
  /\ res.ret = OK
  /\ adds = <<1, 1>>
  /\ SnapIdsOf(pre.omap) = {0}
  /\ SnapIdsOf(obj.omap) = {0, 1}

(***************************************************************************)
(* The scans page by page (under PageSpec).                                *)
(***************************************************************************)
\* C31: on an image with more snapshots than a page of RBD_MAX_KEYS_READ
\* keys holds, or with exactly one or two pages of them, get_snapcontext
\* returns the id of every snapshot once, and snapshot_add returns EEXIST
\* for a name or an id (not below snap_seq) that a snapshot on any page has
\* and succeeds for a name and an id that none has.
C31_Pages ==
  /\ Created(obj)
  /\ LET r == get_snapcontext(obj)
     IN  /\ r.ret = OK
         /\ Len(r.out.snap_ids) = Cardinality(SnapKeys(obj.omap))
         /\ Range(r.out.snap_ids) = SnapIdsOf(obj.omap)
         /\ StrictlyDescending(r.out.snap_ids)
  /\ call.op = "get_snapcontext" => res = Answer(get_snapcontext(obj))
  /\ (call.op = "snapshot_add" /\ call.args.id >= SnapSeq(pre)) =>
       /\ res.ret \in {OK, "EEXIST"}
       /\ res.ret = "EEXIST" <=>
            Duplicates(pre.omap, call.args.name, call.args.id)

\* the image has two pages of snapshots and no more, and the name asked for
\* is that of the last snapshot of the second page
C31_Witness ==
  /\ call.op = "snapshot_add"
  /\ res.ret = "EEXIST"
  /\ Cardinality(SnapKeys(pre.omap)) = 2 * RBD_MAX_KEYS_READ
  /\ call.args.name = PageName(2 * RBD_MAX_KEYS_READ - 1)
  /\ call.args.id = 2 * RBD_MAX_KEYS_READ
  /\ call.args.id \notin SnapIdsOf(pre.omap)
  /\ \A s \in SnapRecords(pre.omap) :
       s.name = call.args.name => s.id = 2 * RBD_MAX_KEYS_READ - 1
  /\ Cardinality({id \in SnapIdsOf(pre.omap) :
                    id < 2 * RBD_MAX_KEYS_READ - 1}) >= RBD_MAX_KEYS_READ

====
